---- MODULE Spec2Model ----
(***************************************************************************)
(* A model of harp-python.  Spec: the message codec (harp/io.py),         *)
(* parse/read decode a single-register byte buffer into a table,           *)
(* format/write encode a table into a byte buffer.  ClockSpec: the clock   *)
(* decoding and alignment (harp/clock.py).  ReaderSpec: schemas and        *)
(* register readers (harp/schema.py, harp/reader.py).  MapSpec: the        *)
(* RegisterMap of a device reader (harp/reader.py).                        *)
(*                                                                         *)
(* Representation.                                                         *)
(*  - A buffer is a sequence of bytes (0..255); python offset k is At(b,k).*)
(*  - A payload element is the sequence of its bytes in memory order       *)
(*    (little-endian host): the code reinterprets bytes as elements and    *)
(*    back (strided views), it never computes with them.  Only astype      *)
(*    converts, and is modelled on the bytes (truncate / extend).          *)
(*  - A time value is <<s, u>>: s whole seconds and u microseconds,        *)
(*    0 <= u < 1000000, the exact value of the float64 the code holds      *)
(*    (one tick of 32e-6 s is 32 microseconds; the float64 error of        *)
(*    ticks * 32e-6 + seconds stays below one microsecond for seconds      *)
(*    below 2^32, far from the half-tick points where rounding decides).   *)
(*    Seconds are kept below 2^31, the integers of the model checker.      *)
(*  - A data type is named by numpy's type number (np.dtype(t).num), the   *)
(*    payload type tag of a message is the byte of the wire format;        *)
(*    UnsupportedDtype names any dtype outside the table (float64, object).*)
(*  - None is the absent optional argument.                                *)
(*  - Header bytes are taken as plain integers: stride = byte 1 + 2.       *)
(*    The inputs keep the length byte below 254, where the sum also fits   *)
(*    the uint8 scalar NumPy 2 computes it in (np.uint8(254) + 2 wraps).   *)
(***************************************************************************)
EXTENDS Integers, Sequences, FiniteSets, TLC

None == -1

\* columns=None: no column labels given (labels are a sequence otherwise)
NoColumns == <<None>>

\* class MessageType(IntEnum)
NA == 0
READ == 1
WRITE == 2
EVENT == 3

\* _messagetypes = [type.name for type in MessageType]
messagetypes == <<"NA", "READ", "WRITE", "EVENT">>

\* _SECONDS_PER_TICK = 32e-6, in microseconds
MicrosPerTick == 32
MicrosPerSecond == 1000000

\* _PAYLOAD_TIMESTAMP_MASK = 0x10
PAYLOAD_TIMESTAMP_MASK == 16

\* A dtype that is no key of _payloadtypefromdtype (float64, object)
UnsupportedDtype == 0

\* the numpy types of the table, each named by its type number
np == [int8 |-> 1, uint8 |-> 2, int16 |-> 3, uint16 |-> 4, int32 |-> 5,
       uint32 |-> 6, int64 |-> 7, uint64 |-> 8, float32 |-> 11]

\* a table that gives int8 the tag of uint8 with bit 0x10 set
dtypefrompayloadtypeOverlapping ==
  <<<<1, np.uint8>>, <<2, np.uint16>>, <<4, np.uint32>>, <<8, np.uint64>>,
    <<17, np.int8>>, <<130, np.int16>>, <<132, np.int32>>, <<136, np.int64>>,
    <<68, np.float32>>>>

\* _dtypefrompayloadtype: the items <<tag, dtype>> of the dict, in order
dtypefrompayloadtype ==
  <<<<1, np.uint8>>, <<2, np.uint16>>, <<4, np.uint32>>, <<8, np.uint64>>,
    <<129, np.int8>>, <<130, np.int16>>, <<132, np.int32>>, <<136, np.int64>>,
    <<68, np.float32>>>>

\* _payloadtypefromdtype = {v: k for k, v in _dtypefrompayloadtype.items()}:
\* the items <<dtype, tag>>
payloadtypefromdtype ==
  [i \in 1..Len(dtypefrompayloadtype) |->
     <<dtypefrompayloadtype[i][2], dtypefrompayloadtype[i][1]>>]

\* a dict given by its items: the keys, and d[key], where a later item of a
\* literal or of a comprehension replaces an earlier one with the same key
Keys(items) == {items[i][1] : i \in 1..Len(items)}
Lookup(items, key) ==
  items[CHOOSE i \in 1..Len(items) :
          /\ items[i][1] = key
          /\ \A j \in (i + 1)..Len(items) : items[j][1] # key][2]

\* keys of _dtypefrompayloadtype
PayloadTypes == Keys(dtypefrompayloadtype)

\* np.dtype(...).itemsize
itemsize(dtype) ==
  CASE dtype \in {np.int8, np.uint8} -> 1
    [] dtype \in {np.int16, np.uint16} -> 2
    [] dtype \in {np.int32, np.uint32, np.float32} -> 4
    [] dtype \in {np.int64, np.uint64} -> 8

\* whether the dtype is a signed integer, and whether it is a float
IsSigned(dtype) == dtype \in {np.int8, np.int16, np.int32, np.int64}
IsFloat(dtype) == dtype = np.float32

\* ------------------------------------------------------------------ bytes

At(b, k) == b[k + 1]

RECURSIVE SumSeq(_)
SumSeq(s) == IF s = <<>> THEN 0 ELSE Head(s) + SumSeq(Tail(s))

RECURSIVE Pow256(_)
Pow256(n) == IF n = 0 THEN 1 ELSE 256 * Pow256(n - 1)

\* the bytes of an unsigned value of n bytes, least significant first
LittleEndian(v, n) == [i \in 1..n |-> (v \div Pow256(i - 1)) % 256]

\* the unsigned value of n bytes at offset off, least significant first
RECURSIVE UnsignedAt(_, _, _)
UnsignedAt(b, off, n) ==
  IF n = 0 THEN 0 ELSE At(b, off) + 256 * UnsignedAt(b, off + 1, n - 1)

\* payloadtype & _PAYLOAD_TIMESTAMP_MASK != 0
HasTimestampBit(tag) == (tag \div PAYLOAD_TIMESTAMP_MASK) % 2 = 1

\* payloadtype & ~np.uint8(_PAYLOAD_TIMESTAMP_MASK)
ClearTimestampBit(tag) ==
  IF HasTimestampBit(tag) THEN tag - PAYLOAD_TIMESTAMP_MASK ELSE tag

\* payloadtype |= _PAYLOAD_TIMESTAMP_MASK
SetTimestampBit(tag) ==
  IF HasTimestampBit(tag) THEN tag ELSE tag + PAYLOAD_TIMESTAMP_MASK

\* ------------------------------------------------------------------ tables

\* pandas index kinds: RangeIndex (positional), float64 seconds, DatetimeIndex
IndexKinds == {"range", "float", "datetime"}

NoTable ==
  [index |-> "range", time |-> <<>>, nrows |-> 0, dtype |-> UnsupportedDtype,
   payload |-> <<>>, columns |-> <<>>, hasType |-> FALSE, kinds |-> <<>>]

\* the labels pandas gives the columns of an unlabelled 2-D array: 0..n-1
DefaultColumns(n) == [i \in 1..n |-> i - 1]

Ok(tab) == [raised |-> "none", line |-> 0, tab |-> tab, buf |-> <<>>]
OkBuffer(buf) == [raised |-> "none", line |-> 0, tab |-> NoTable, buf |-> buf]
Raise(what, line) == [raised |-> what, line |-> line, tab |-> NoTable, buf |-> <<>>]

\* ------------------------------------------------------------------ _fromraw

\* np.ndarray(shape, buffer=data, offset=offset, strides=strides) accepts the
\* view: numpy's PyArray_CheckStrides. An array with a zero dimension needs
\* only offset <= len; otherwise the last element must end inside the buffer.
ViewFits(len, offset, nrows, ncols, rowstride, colstride, elsize) ==
  IF nrows = 0 \/ ncols = 0
    THEN offset <= len
    ELSE offset + (nrows - 1) * rowstride + (ncols - 1) * colstride + elsize <= len

\* python floor division of a possibly negative numerator by a positive number
FloorDiv(a, b) == IF a >= 0 THEN a \div b ELSE -((-a + b - 1) \div b)

\* a time that takes the tick counter for microseconds: micros * 1e-6 + seconds
TimeOfMicroseconds(seconds, micros) ==
  <<seconds + micros \div MicrosPerSecond, micros % MicrosPerSecond>>

\* time = micros * _SECONDS_PER_TICK + seconds
TimeOf(seconds, micros) ==
  <<seconds + (micros * MicrosPerTick) \div MicrosPerSecond,
    (micros * MicrosPerTick) % MicrosPerSecond>>

\* the offsets of the timestamp fields and of the payload (io.py 144-149)
SecondsOffset == 5
TicksOffset == 9

\* a payload offset that is not advanced past the tick counter
PayloadOffsetBeforeTicks(timestamped) == IF timestamped THEN 9 ELSE 5

PayloadOffset(timestamped) == IF timestamped THEN 11 ELSE 5

\* one element of the strided payload view: elsize bytes at the offset
ElementAt(data, off, elsize) == [i \in 1..elsize |-> At(data, off + i - 1)]

\* pd.DataFrame(columns=columns, index=pd.Index([], dtype=np.float64, name="Time"))
EmptyFrame(columns) ==
  [index |-> "float", time |-> <<>>, nrows |-> 0, dtype |-> UnsupportedDtype,
   payload |-> <<>>, columns |-> IF columns = NoColumns THEN <<>> ELSE columns,
   hasType |-> FALSE, kinds |-> <<>>]

\* a row count that rounds up, counting a trailing partial message
RowCountCeiling(len, stride) == (len + stride - 1) \div stride

\* nrows = len(data) // stride
RowCount(len, stride) == len \div stride

\* an element count taken in bytes: payloadshape[1] = payloadsize
ElementCountInBytes(payloadsize, elementsize) == payloadsize

\* an element count that takes the checksum byte for payload
ElementCountWithChecksum(payloadsize, elementsize) ==
  FloorDiv(payloadsize + 1, elementsize)

\* payloadshape[1] = payloadsize // elementsize
ElementCount(payloadsize, elementsize) == FloorDiv(payloadsize, elementsize)

\* _fromraw, lines 140-180: the buffer holds at least the five header bytes
FromrawBody(data, dtype, length, columns, epoch, keep_type) ==
  LET stride == At(data, 1) + 2
      nrows == RowCount(Len(data), stride)
      tag == At(data, 4)
      timestamped == HasTimestampBit(tag)
      payloadoffset == PayloadOffset(timestamped)
      basetag == ClearTimestampBit(tag)
      payloadsize == stride - payloadoffset - 1
  IN
  IF timestamped /\ ~ViewFits(Len(data), SecondsOffset, nrows, 1, stride, 0, 4)
    THEN Raise("ValueError", 146)
  ELSE IF timestamped /\ ~ViewFits(Len(data), TicksOffset, nrows, 1, stride, 0, 2)
    THEN Raise("ValueError", 148)
  ELSE IF basetag \notin PayloadTypes
    THEN Raise("KeyError", 158)
  ELSE
  LET payloadtype == Lookup(dtypefrompayloadtype, basetag)
  IN
  IF dtype # None /\ dtype # payloadtype
    THEN Raise("ValueError", 160)
  ELSE
  LET elementsize == itemsize(payloadtype)
      ncols == ElementCount(payloadsize, elementsize)
  IN
  IF length # None /\ length # ncols
    THEN Raise("ValueError", 165)
  ELSE IF ncols < 0
    THEN Raise("ValueError", 167)
  ELSE IF ~ViewFits(Len(data), payloadoffset, nrows, ncols, stride, elementsize, elementsize)
    THEN Raise("ValueError", 167)
  ELSE IF columns # NoColumns /\ Len(columns) # ncols
    THEN Raise("ValueError", 175)
  ELSE IF keep_type /\ \E r \in 1..nrows : At(data, (r - 1) * stride) > EVENT
    THEN Raise("ValueError", 178)
  ELSE
  Ok([index |-> IF ~timestamped THEN "range"
                ELSE IF epoch THEN "datetime" ELSE "float",
      time |-> IF timestamped
                 THEN [r \in 1..nrows |->
                         TimeOf(UnsignedAt(data, (r - 1) * stride + SecondsOffset, 4),
                                UnsignedAt(data, (r - 1) * stride + TicksOffset, 2))]
                 ELSE <<>>,
      nrows |-> nrows,
      dtype |-> payloadtype,
      payload |-> [r \in 1..nrows |->
                     [c \in 1..ncols |->
                        ElementAt(data, (r - 1) * stride + payloadoffset
                                          + (c - 1) * elementsize, elementsize)]],
      columns |-> IF columns = NoColumns THEN DefaultColumns(ncols) ELSE columns,
      hasType |-> keep_type,
      kinds |-> IF keep_type
                  THEN [r \in 1..nrows |-> At(data, (r - 1) * stride)]
                  ELSE <<>>])

\* a decoder that holds the expected address against every message
FromrawEveryAddress(data, address, dtype, length, columns, epoch, keep_type) ==
  IF Len(data) = 0 THEN Ok(EmptyFrame(columns))
  ELSE IF address # None /\ Len(data) < 3 THEN Raise("IndexError", 137)
  ELSE IF address # None /\ address # At(data, 2) THEN Raise("ValueError", 138)
  ELSE IF Len(data) < 2 THEN Raise("IndexError", 141)
  ELSE IF Len(data) < 5 THEN Raise("IndexError", 143)
  ELSE IF address # None
            /\ \E m \in 0..(Len(data) \div (At(data, 1) + 2) - 1) :
                 address # At(data, m * (At(data, 1) + 2) + 2)
    THEN Raise("ValueError", 138)
  ELSE FromrawBody(data, dtype, length, columns, epoch, keep_type)

\* _fromraw(data, address, dtype, length, columns, epoch, keep_type);
\* parse and read hand it the bytes of the buffer or of the file
Fromraw(data, address, dtype, length, columns, epoch, keep_type) ==
  IF Len(data) = 0 THEN Ok(EmptyFrame(columns))
  ELSE IF address # None /\ Len(data) < 3 THEN Raise("IndexError", 137)
  ELSE IF address # None /\ address # At(data, 2) THEN Raise("ValueError", 138)
  ELSE IF Len(data) < 2 THEN Raise("IndexError", 141)
  ELSE IF Len(data) < 5 THEN Raise("IndexError", 143)
  ELSE FromrawBody(data, dtype, length, columns, epoch, keep_type)

\* ------------------------------------------------------------------ format

RECURSIVE Flatten(_)
Flatten(seqs) == IF seqs = <<>> THEN <<>> ELSE Head(seqs) \o Flatten(Tail(seqs))

\* np.around(x / d) for integers x >= 0, d > 0 even: round half to even
RoundHalfEven(x, d) ==
  LET q == x \div d
      r == x % d
  IN IF 2 * r < d THEN q
     ELSE IF 2 * r > d THEN q + 1
     ELSE IF q % 2 = 0 THEN q ELSE q + 1

\* seconds rounded to the nearest: np.around(time).astype(np.uint32)
FormatSecondsRounded(time) ==
  IF 2 * time[2] >= MicrosPerSecond THEN time[1] + 1 ELSE time[1]

\* seconds = time.astype(np.uint32): truncation of a non-negative float
FormatSeconds(time) == time[1]

\* micros = np.around(((time - seconds) / _SECONDS_PER_TICK).values).astype(np.uint16)
FormatMicros(time) == RoundHalfEven(time[2], MicrosPerTick) % 65536

\* payload.astype(dtype) of one integer element to another integer type:
\* the C conversion, truncating or sign/zero extending the bytes
CastElement(bytes, from, to) ==
  LET m == itemsize(from)
      fill == IF IsSigned(from) /\ bytes[m] >= 128 THEN 255 ELSE 0
  IN [i \in 1..itemsize(to) |-> IF i <= m THEN bytes[i] ELSE fill]

\* a checksum that leaves the message kind out: np.sum(buffer[:, 1:-1], ...)
ChecksumWithoutKind(bytes) == SumSeq(Tail(bytes)) % 256

\* buffer[:, -1] = np.sum(buffer[:, 0:-1], axis=1, dtype=np.uint8)
Checksum(bytes) == SumSeq(bytes) % 256

\* port = 255 when port is None
DefaultPort == 255

\* is_timestamped with the test of the index inverted:
\* elif not isinstance(time, pd.RangeIndex): is_timestamped = False
IsTimestampedUnlessPositional(index, epoch) == epoch \/ index = "range"

\* is_timestamped (io.py 265-271), once the epoch check has passed
IsTimestamped(index, epoch) == epoch \/ index # "range"

\* a stride that leaves the checksum byte out: stride = payloadlength + 5
FormatStrideWithoutChecksum(payloadlength, is_timestamped) ==
  payloadlength + 5 + (IF is_timestamped THEN 6 ELSE 0)

\* stride = payloadlength + 6, and 6 more when timestamped
FormatStride(payloadlength, is_timestamped) ==
  payloadlength + 6 + (IF is_timestamped THEN 6 ELSE 0)

\* time = data.index: the value of the index at row r (from 1); a RangeIndex
\* holds the positions 0, 1, ...
IndexValue(data, r) == IF data.index = "range" THEN <<r - 1, 0>> ELSE data.time[r]

\* a message kind that prefers the message_type argument to the column
MessageKindArgumentFirst(data, message_type, r) ==
  IF message_type # None THEN message_type ELSE data.kinds[r]

\* msgtype of row r (from 1): the code of the MessageType column when the
\* table has one, the message_type argument otherwise (io.py 255-260)
MessageKind(data, message_type, r) ==
  IF data.hasType THEN data.kinds[r] ELSE message_type

\* one row of the output buffer (io.py 287-303)
FormatRow(msgtype, stride, address, port, payloadtype, is_timestamped, time, payload) ==
  LET front == <<msgtype, stride - 2, address, port, payloadtype>>
               \o (IF is_timestamped
                     THEN LittleEndian(FormatSeconds(time), 4)
                          \o LittleEndian(FormatMicros(time), 2)
                     ELSE <<>>)
               \o Flatten(payload)
  IN Append(front, Checksum(front))

\* format(data, address, dtype, port, epoch, message_type)
Format(data, address, dtype, port, epoch, message_type) ==
  IF data.nrows = 0 THEN OkBuffer(<<>>)
  ELSE IF ~data.hasType /\ message_type = None THEN Raise("ValueError", 262)
  ELSE IF epoch /\ data.index # "datetime" THEN Raise("ValueError", 268)
  ELSE
  LET is_timestamped == IsTimestamped(data.index, epoch)
      ncols == Len(data.payload[1])
      \* DataFrame.values of a frame without payload columns is float64
      valuesdtype == IF ncols = 0 THEN UnsupportedDtype ELSE data.dtype
      payloaddtype == IF dtype # None THEN dtype ELSE valuesdtype
  IN
  IF payloaddtype \notin Keys(payloadtypefromdtype) THEN Raise("KeyError", 279)
  ELSE IF is_timestamped /\ data.index = "datetime" /\ ~epoch
    THEN Raise("TypeError", 293)
  ELSE
  LET payload == [r \in 1..data.nrows |->
                    [c \in 1..ncols |->
                       IF dtype # None /\ dtype # data.dtype
                         THEN CastElement(data.payload[r][c], data.dtype, dtype)
                         ELSE data.payload[r][c]]]
      payloadlength == ncols * itemsize(payloaddtype)
      stride == FormatStride(payloadlength, is_timestamped)
      basetype == Lookup(payloadtypefromdtype, payloaddtype)
      payloadtype == IF is_timestamped THEN SetTimestampBit(basetype)
                     ELSE basetype
  IN OkBuffer(Flatten([r \in 1..data.nrows |->
       FormatRow(MessageKind(data, message_type, r),
                 stride, address, IF port = None THEN DefaultPort ELSE port,
                 payloadtype, is_timestamped,
                 IndexValue(data, r),
                 payload[r])]))

\* ------------------------------------------------------------------ clock.py

\* Clock times (local timestamps, harp times) are integers in one unit; a
\* second is UnitsPerSecond units where bit periods matter (barcodes) and two
\* units where half seconds matter (alignment).  Fits and aligned times are
\* exact rationals: the model leaves the rounding of float64 out.

\* the result of a call: the value returned, or the exception raised and its line
Returns(v) == [raised |-> "none", line |-> 0, value |-> v]
Raises(what, line) == [raised |-> what, line |-> line, value |-> <<>>]

\* np.diff(a)
Diff(a) == [i \in 1..(Len(a) - 1) |-> a[i + 1] - a[i]]

\* a gap test that also takes a difference equal to min_delta for a gap
IsGapInclusive(delta, min_delta) == delta >= min_delta

\* np.diff(timestamps) > min_delta, for one difference
IsGap(delta, min_delta) == delta > min_delta

\* (splits,) = np.where(np.diff(timestamps) > min_delta): the python indices
\* of the differences that are gaps, ascending
BarcodeSplits(timestamps, min_delta) ==
  LET d == Diff(timestamps)
  IN SelectSeq([i \in 1..Len(d) |-> i - 1], LAMBDA j : IsGap(d[j + 1], min_delta))

\* get_barcode_edges: list(zip(splits[:-1] + 1, splits[1:] + 1))
get_barcode_edges(timestamps, min_delta) ==
  LET splits == BarcodeSplits(timestamps, min_delta)
  IN [k \in 1..(Len(splits) - 1) |-> <<splits[k] + 1, splits[k + 1] + 1>>]

\* the time units of a second in barcode inputs
UnitsPerSecond == 8000

\* intervals = np.round(np.diff(transition_times * baud_rate)).astype("int")
BarcodeIntervals(transition_times, baud_rate) ==
  [i \in 1..(Len(transition_times) - 1) |->
     RoundHalfEven((transition_times[i + 1] - transition_times[i]) * baud_rate,
                   UnitsPerSecond)]

\* np.ones((count,)) * state
Repeat(state, count) == [i \in 1..count |-> state]

\* barcode = np.concatenate([np.ones((count,)) * state
\*                           for state, count in zip(states[:-1], intervals)])
\* (zip stops at the shorter of the two)
Barcode(states, intervals) ==
  LET n == IF Len(states) - 1 < Len(intervals) THEN Len(states) - 1 ELSE Len(intervals)
  IN Flatten([i \in 1..n |-> Repeat(states[i], intervals[i])])

\* val = np.concatenate((np.arange(1, 9), np.arange(11, 19), np.arange(21, 29),
\*                       np.arange(31, 39))): python indices into the barcode
BarcodeBits == [j \in 1..32 |-> ((j - 1) \div 8) * 10 + ((j - 1) % 8) + 1]

RECURSIVE Pow2(_)
Pow2(n) == IF n = 0 THEN 1 ELSE 2 * Pow2(n - 1)

\* s = np.flip(barcode[val]); harp_time = s.dot(2 ** np.arange(s.size)[::-1]):
\* the bit at val[j] (j from 0) weighs 2^j
WeightedSum(bits) ==
  SumSeq([j \in 1..Len(bits) |-> IF bits[j] = 0 THEN 0 ELSE bits[j] * Pow2(j - 1)])

\* convert_barcode(transition_times, states, baud_rate)
convert_barcode(transition_times, states, baud_rate) ==
  LET intervals == BarcodeIntervals(transition_times, baud_rate)
      barcode == Barcode(states, intervals)
  IN IF Len(states) < 2 \/ Len(intervals) < 1
       THEN Raises("ValueError", 184)  \* need at least one array to concatenate
     ELSE IF \E j \in 1..32 : BarcodeBits[j] >= Len(barcode)
       THEN Raises("IndexError", 192)
     ELSE Returns(WeightedSum([j \in 1..32 |-> At(barcode, BarcodeBits[j])]))

\* a filter that also keeps the runs of a single value
KeepsRunOfOne(length) == length > 0

\* if len(sub_array) > 1
KeepsRun(length) == length > 1

\* pieces that end only where the times do not increase
OutlierSplitsOnDecrease(harp_times) ==
  LET d == Diff(harp_times)
  IN SelectSeq([i \in 1..Len(d) |-> i], LAMBDA j : d[j] < 1)

\* np.where(np.diff(harp_times) != 1)[0] + 1: the python indices that start a
\* new piece, ascending
OutlierSplits(harp_times) ==
  LET d == Diff(harp_times)
  IN SelectSeq([i \in 1..Len(d) |-> i], LAMBDA j : d[j] # 1)

\* np.split(original_indices, splits): the pieces [0, p1), [p1, p2), ..., [pm, n)
\* as sequences of python indices
SplitIndices(n, splits) ==
  LET cuts == <<0>> \o splits \o <<n>>
  IN [k \in 1..(Len(cuts) - 1) |->
        [i \in 1..(cuts[k + 1] - cuts[k]) |-> cuts[k] + i - 1]]

\* an outlier removal that returns empty arrays when it keeps no piece
remove_outliersOrNothing(start_times, harp_times) ==
  LET pieces == SelectSeq(SplitIndices(Len(harp_times), OutlierSplits(harp_times)),
                          LAMBDA sub_array : KeepsRun(Len(sub_array)))
      new_indices == Flatten(pieces)
  IN IF \E i \in 1..Len(new_indices) : new_indices[i] >= Len(start_times)
       THEN Raises("IndexError", 247)
     ELSE Returns([start_times |-> [i \in 1..Len(new_indices) |->
                                      At(start_times, new_indices[i])],
                   harp_times |-> [i \in 1..Len(new_indices) |->
                                     At(harp_times, new_indices[i])],
                   num_outliers |-> Len(harp_times) - Len(new_indices)])

\* remove_outliers(start_times, harp_times): num_outliers > 0 warns
remove_outliers(start_times, harp_times) ==
  LET pieces == SelectSeq(SplitIndices(Len(harp_times), OutlierSplits(harp_times)),
                          LAMBDA sub_array : KeepsRun(Len(sub_array)))
      new_indices == Flatten(pieces)
  IN IF pieces = <<>>
       THEN Raises("ValueError", 229)  \* need at least one array to concatenate
     ELSE IF \E i \in 1..Len(new_indices) : new_indices[i] >= Len(start_times)
       THEN Raises("IndexError", 247)
     ELSE Returns([start_times |-> [i \in 1..Len(new_indices) |->
                                      At(start_times, new_indices[i])],
                   harp_times |-> [i \in 1..Len(new_indices) |->
                                     At(harp_times, new_indices[i])],
                   num_outliers |-> Len(harp_times) - Len(new_indices)])

\* timestamps[a:b]: the python slice of a sequence, 0 <= a <= b <= len
Slice(a, from, to) == SubSeq(a, from + 1, to)

\* decode_harp_clock(timestamps, states, baud_rate): min_delta is 0.5 s; the
\* first convert_barcode that raises ends the call
decode_harp_clock(timestamps, states, baud_rate) ==
  LET min_delta == UnitsPerSecond \div 2
      barcode_edges == get_barcode_edges(timestamps, min_delta)
      start_times == [k \in 1..Len(barcode_edges) |->
                        At(timestamps, barcode_edges[k][1])]
      converted == [k \in 1..Len(barcode_edges) |->
                      convert_barcode(
                        Slice(timestamps, barcode_edges[k][1], barcode_edges[k][2]),
                        Slice(states, barcode_edges[k][1], barcode_edges[k][2]),
                        baud_rate)]
      failed == {k \in 1..Len(converted) : converted[k].raised # "none"}
  IN IF failed # {}
       THEN converted[CHOOSE k \in failed : \A j \in failed : k <= j]
     ELSE
     LET corrected == remove_outliers(start_times,
                                      [k \in 1..Len(converted) |-> converted[k].value])
     IN IF corrected.raised # "none" THEN corrected
        ELSE Returns([start_times |-> corrected.value.start_times,
                      harp_times |-> corrected.value.harp_times])

RECURSIVE GCD(_, _)
GCD(a, b) == IF b = 0 THEN a ELSE GCD(b, a % b)

Abs(a) == IF a < 0 THEN -a ELSE a

\* the rational n / d (d > 0) in lowest terms, as <<numerator, denominator>>
Rat(n, d) == LET g == GCD(Abs(n), d) IN <<n \div g, d \div g>>

\* np.linalg.lstsq(np.vstack([x, np.ones(len(x))]).T, y, rcond=None)[0] for
\* distinct x: slope sn / d and offset on / d of the least-squares line; for a
\* single point, the solution of least norm, y * (x, 1) / (x * x + 1)
LeastSquares(x, y) ==
  LET n == Len(x)
      sx == SumSeq(x)
      sy == SumSeq(y)
      sxx == SumSeq([i \in 1..n |-> x[i] * x[i]])
      sxy == SumSeq([i \in 1..n |-> x[i] * y[i]])
  IN IF n = 1
       THEN [sn |-> x[1] * y[1], on |-> y[1], d |-> x[1] * x[1] + 1]
       ELSE [sn |-> n * sxy - sx * sy, on |-> sy * sxx - sx * sxy,
             d |-> n * sxx - sx * sx]

\* a segment slice that stops after one anchor: a[i : i + 1]
SegmentSliceOfOne(a, i) == SubSeq(a, i + 1, i + 1)

\* the python slice a[i : i + 2]
SegmentSlice(a, i) ==
  SubSeq(a, i + 1, IF i + 2 <= Len(a) THEN i + 2 ELSE Len(a))

\* slopes and offsets (clock.py 41-53): entry 0 (first of the sequence) is the
\* fit over all anchors, entry i + 1 the fit of segment i
AnchorFits(start_times, harp_times) ==
  [k \in 1..(Len(start_times) + 1) |->
     IF k = 1 THEN LeastSquares(start_times, harp_times)
     ELSE LeastSquares(SegmentSlice(start_times, k - 2),
                       SegmentSlice(harp_times, k - 2))]

\* np.searchsorted(a, t, side="right"): the anchors at or before t
SearchsortedRight(a, t) == Cardinality({i \in 1..Len(a) : a[i] <= t})

\* np.searchsorted(a, t, side="left") of an ascending a: the anchors before t
Searchsorted(a, t) == Cardinality({i \in 1..Len(a) : a[i] < t})

\* an index that is left as it is past the last anchor
NearestUnwrapped(i, N) == i

\* nearest[nearest == N] = 0
Nearest(i, N) == IF i = N THEN 0 ELSE i

\* align_timestamps_to_harp_clock(timestamps_to_align, start_times, harp_times):
\* per timestamp the index used, its fit and t * slopes[nearest] + offsets[nearest]
align_timestamps_to_harp_clock(timestamps_to_align, start_times, harp_times) ==
  IF Len(start_times) # Len(harp_times) THEN Raises("ValueError", 35)
  ELSE
  LET N == Len(start_times)
      fits == AnchorFits(start_times, harp_times)
  IN Returns([q \in 1..Len(timestamps_to_align) |->
       LET t == timestamps_to_align[q]
           nearest == Nearest(Searchsorted(start_times, t), N)
           fit == At(fits, nearest)
       IN [nearest |-> nearest, fit |-> fit,
           aligned |-> Rat(t * fit.sn + fit.on, fit.d)]])

\* ------------------------------------------------------------------ inputs

\* the most messages of a buffer or rows of a table, and payload elements of one
MaxRows == 2
MaxCols == 2

Addresses == {32, 42}

\* the message kind, timestamp fields and payload seed of the sample messages
Samples ==
  <<[kind |-> WRITE, seconds |-> 0, ticks |-> 0, seed |-> 1],
    [kind |-> EVENT, seconds |-> 3806874, ticks |-> 31249, seed |-> 120],
    [kind |-> READ, seconds |-> 16909060, ticks |-> 31250, seed |-> 250],
    [kind |-> NA, seconds |-> 1, ticks |-> 65535, seed |-> 7]>>

\* the rows of an input: one row of any sample, or n rows from the first sample on
RowChoices ==
  {<<k>> : k \in 1..Len(Samples)}
    \cup {[i \in 1..n |-> ((i - 1) % Len(Samples)) + 1] : n \in 2..MaxRows}

\* the bytes of element c of a row: consecutive values from the seed
SampleElement(seed, c, width) ==
  [i \in 1..width |-> (seed + 16 * (c - 1) + i - 1) % 256]

SamplePayload(seed, ncols, width) ==
  [c \in 1..ncols |-> SampleElement(seed, c, width)]

\* one message as a device writes it (the wire format)
DeviceMessage(kind, address, port, tag, seconds, ticks, payload) ==
  LET front == <<kind, 4 + (IF HasTimestampBit(tag) THEN 6 ELSE 0) + Len(payload),
                 address, port, tag>>
               \o (IF HasTimestampBit(tag)
                     THEN LittleEndian(seconds, 4) \o LittleEndian(ticks, 2)
                     ELSE <<>>)
               \o payload
  IN Append(front, SumSeq(front) % 256)

\* the header fields shared by the messages of a single-register buffer
Headers ==
  {[address |-> ap[1], port |-> ap[2], tag |-> tag, ncols |-> n] :
     ap \in {<<42, 255>>, <<42, 1>>, <<32, 255>>},
     tag \in PayloadTypes \cup {SetTimestampBit(t) : t \in PayloadTypes},
     n \in 1..MaxCols}

\* the bytes of one element of a message with the payload type tag
ElementSize(tag) == itemsize(Lookup(dtypefrompayloadtype, ClearTimestampBit(tag)))

DeviceBuffer(h, rows) ==
  Flatten([r \in 1..Len(rows) |->
     DeviceMessage(Samples[rows[r]].kind, h.address, h.port, h.tag,
                   Samples[rows[r]].seconds, Samples[rows[r]].ticks,
                   Flatten(SamplePayload(Samples[rows[r]].seed, h.ncols,
                                         ElementSize(h.tag))))])

WellFormedBuffers == {DeviceBuffer(h, rows) : h \in Headers, rows \in RowChoices}

\* b with the byte at python offset k replaced by v
WithByte(b, k, v) == [b EXCEPT ![k + 1] = v]

\* damaged files: truncated, with trailing bytes, with an unknown payload
\* type, with an unknown message kind, with a length byte that is too small
Damaged(b) ==
  {SubSeq(b, 1, n) : n \in {1, 2, 4, 5, 8, 10, Len(b) - 1} \cap 1..Len(b)}
    \cup {b \o <<0>>, b \o SubSeq(b, 1, 5)}
    \cup {WithByte(b, 4, 3), WithByte(b, 4, 19), WithByte(b, 0, 7),
          WithByte(b, 1, 1), WithByte(b, 1, 7)}

DamagedBuffers ==
  UNION {Damaged(DeviceBuffer(h, rows)) :
           h \in Headers, rows \in {<<1>>, <<1, 2>>}}

\* the rows of the buffers of two or more messages
SeveralRows == {[i \in 1..n |-> ((i - 1) % Len(Samples)) + 1] : n \in 2..MaxRows}

\* files whose second message carries another address, length byte or payload
\* type tag than the first: b is a buffer of messages of n bytes
LaterMessageDiffers(b, n) ==
  {WithByte(b, n + 2, 7), WithByte(b, n + 1, 3), WithByte(b, n + 4, 3),
   WithByte(b, n + 4, IF HasTimestampBit(At(b, 4))
                        THEN ClearTimestampBit(At(b, 4))
                        ELSE SetTimestampBit(At(b, 4)))}

\* the headers of the files of one register written through the default port
DefaultPortHeaders == {h \in Headers : h.address = 42 /\ h.port = DefaultPort}

MixedBuffers ==
  UNION {LaterMessageDiffers(DeviceBuffer(h, rows),
                             Len(DeviceBuffer(h, rows)) \div Len(rows)) :
           h \in DefaultPortHeaders, rows \in SeveralRows}

\* files with a wrong checksum byte in the first or in the last message
WrongChecksum(b, n) ==
  {WithByte(b, n - 1, (At(b, n - 1) + 1) % 256),
   WithByte(b, Len(b) - 1, (At(b, Len(b) - 1) + 128) % 256)}

UncheckedBuffers ==
  UNION {WrongChecksum(DeviceBuffer(h, rows),
                       Len(DeviceBuffer(h, rows)) \div Len(rows)) :
           h \in DefaultPortHeaders, rows \in {<<2>>} \cup SeveralRows}

InputBuffers ==
  {<<>>} \cup WellFormedBuffers \cup DamagedBuffers \cup MixedBuffers
    \cup UncheckedBuffers

\* the expectations a caller passes to parse: <<address, dtype, length>>
ParseHints ==
  {<<None, None, None>>, <<42, np.uint8, 1>>}
    \cup {<<a, None, None>> : a \in Addresses}
    \cup {<<None, d, None>> : d \in {np.uint8, np.int16}}
    \cup {<<None, None, n>> : n \in {1, 2}}

\* the other arguments of parse
ParseOptions ==
  {[columns |-> NoColumns, epoch |-> FALSE, keep_type |-> FALSE],
   [columns |-> NoColumns, epoch |-> TRUE, keep_type |-> FALSE],
   [columns |-> NoColumns, epoch |-> FALSE, keep_type |-> TRUE],
   [columns |-> <<100>>, epoch |-> TRUE, keep_type |-> TRUE],
   [columns |-> <<100, 101>>, epoch |-> FALSE, keep_type |-> FALSE]}

\* the time values of the tables a caller builds: <<seconds, microseconds>>
SampleTimes ==
  <<<<0, 0>>, <<1, 16>>, <<3806874, 48>>, <<16909060, 999984>>,
    <<7, 999999>>, <<2, 500017>>>>

TableRowChoices ==
  {<<k>> : k \in 1..Len(SampleTimes)}
    \cup {[i \in 1..n |-> ((i - 1) % Len(SampleTimes)) + 1] : n \in 2..MaxRows}
    \cup {<<>>}

\* the tables a caller builds: payload columns of one dtype, any index kind,
\* with or without a MessageType column
InputTables ==
  {[index |-> ix,
    time |-> IF ix = "range" THEN <<>> ELSE [r \in 1..Len(rows) |-> SampleTimes[rows[r]]],
    nrows |-> Len(rows),
    dtype |-> d,
    payload |-> [r \in 1..Len(rows) |->
                   SamplePayload(Samples[((rows[r] - 1) % Len(Samples)) + 1].seed, n,
                                 IF d = UnsupportedDtype THEN 8 ELSE itemsize(d))],
    columns |-> DefaultColumns(n),
    hasType |-> ht,
    kinds |-> IF ht THEN [r \in 1..Len(rows) |->
                            Samples[((rows[r] - 1) % Len(Samples)) + 1].kind]
              ELSE <<>>] :
     ix \in IndexKinds, rows \in TableRowChoices,
     d \in {np.uint8, np.int16, np.uint32, np.float32, UnsupportedDtype},
     n \in 1..MaxCols, ht \in BOOLEAN}

\* the arguments a caller passes to format
FormatArgs ==
  {[address |-> a, dtype |-> None, port |-> None, epoch |-> FALSE, message_type |-> None] :
     a \in Addresses}
    \cup {[address |-> 42, dtype |-> None, port |-> 1, epoch |-> FALSE, message_type |-> None],
          [address |-> 42, dtype |-> None, port |-> None, epoch |-> TRUE, message_type |-> None],
          [address |-> 42, dtype |-> None, port |-> None, epoch |-> FALSE, message_type |-> WRITE],
          [address |-> 42, dtype |-> np.uint16, port |-> None, epoch |-> FALSE, message_type |-> EVENT],
          [address |-> 32, dtype |-> np.int8, port |-> 1, epoch |-> TRUE, message_type |-> READ]}

\* ------------------------------------------------------------------ clock inputs

\* the most transitions of a stream handed to get_barcode_edges, and the most
\* anchors handed to remove_outliers and to the alignment
MaxTransitions == 6
MaxAnchors == 4

\* all sequences of length n over the set S
RECURSIVE SeqsOfLen(_, _)
SeqsOfLen(S, n) ==
  IF n = 0 THEN {<<>>}
  ELSE {Append(q, e) : q \in SeqsOfLen(S, n - 1), e \in S}

\* the running sums of the steps, from the value first
RECURSIVE RunningSum(_, _)
RunningSum(first, steps) ==
  IF steps = <<>> THEN <<first>>
  ELSE <<first>> \o RunningSum(first + Head(steps), Tail(steps))

\* min_delta, and the differences of consecutive transition times around it
MinDeltas == {2, 5}
TransitionSteps == {1, 2, 3, 6}

\* ascending transition times: none, or up to MaxTransitions of them
TransitionStreams ==
  {<<>>} \cup UNION {{RunningSum(7, d) : d \in SeqsOfLen(TransitionSteps, n - 1)} :
                       n \in 1..MaxTransitions}

\* bit k (from 0) of a byte
BitOf(byte, k) == (byte \div Pow2(k)) % 2

\* the level of the clock line in bit period idx (0..39) of the barcode of the
\* value with the bytes v (least significant first): start bit low, each byte
\* least significant bit first, a high and a low bit after each of the first
\* three bytes, the final reset to high (clock.py 75-86)
BarcodeLevel(v, idx) ==
  IF idx % 10 = 0 THEN 0
  ELSE IF idx % 10 = 9 THEN 1
  ELSE BitOf(v[(idx \div 10) + 1], (idx % 10) - 1)

\* the bit periods at which the line changes: it is high before the start bit
BarcodeChanges(v) ==
  SelectSeq([i \in 1..40 |-> i - 1],
            LAMBDA idx : BarcodeLevel(v, idx) # (IF idx = 0 THEN 1 ELSE BarcodeLevel(v, idx - 1)))

\* the transition times and states an acquisition system records for the
\* barcode of v that starts at time first: one bit per 1 / baud_rate seconds,
\* every other transition early and the rest late by jitter units
BarcodeTransitions(v, first, baud_rate, jitter) ==
  LET changes == BarcodeChanges(v)
  IN [transition_times |->
        [i \in 1..Len(changes) |->
           first + changes[i] * (UnitsPerSecond \div baud_rate)
             + (IF i % 2 = 0 THEN jitter ELSE -jitter)],
      states |-> [i \in 1..Len(changes) |-> BarcodeLevel(v, changes[i])]]

\* the bytes of the encoded values, the baud rates and the jitter of the inputs
ClockBytes == {0, 1, 128, 154, 255}
ClockValues == {<<a, b, c, d>> : a \in ClockBytes, b \in ClockBytes,
                                 c \in ClockBytes, d \in ClockBytes}
BaudRates == {1000, 500}
Jitters == {0, 1}

\* decoded harp seconds, with jumps
HarpSeconds == {100, 101, 102, 103, 150, 151}

HarpTimeArrays == UNION {SeqsOfLen(HarpSeconds, n) : n \in 0..MaxAnchors}

\* anchors in half seconds: local start times 1 s or 1.5 s apart, harp times
\* 1 s or 2 s apart
AnchorGaps == {2, 3}
AnchorSteps == {2, 4}

AnchorSets ==
  UNION {{[start_times |-> RunningSum(4, g), harp_times |-> RunningSum(200, h)] :
            g \in SeqsOfLen(AnchorGaps, n - 1), h \in SeqsOfLen(AnchorSteps, n - 1)} :
           n \in 1..MaxAnchors}

\* the timestamps to align: every half second from one second before the
\* first anchor to one second after the last
QueriesOf(start_times) ==
  [q \in 1..(start_times[Len(start_times)] - start_times[1] + 5) |->
     start_times[1] - 3 + q]

\* the most barcodes of a stream handed to decode_harp_clock
MaxBarcodes == 5

\* the values the clock line carries in consecutive seconds, as bytes: harp
\* seconds that follow each other, one after a jump, one with bit 31 set
StreamValues == {<<100, 0, 0, 0>>, <<101, 0, 0, 0>>, <<150, 0, 0, 0>>, <<0, 0, 0, 128>>}

StreamsOfValues == UNION {SeqsOfLen(StreamValues, n) : n \in 0..MaxBarcodes}

\* the transitions of a clock line that carries the values, one barcode per
\* second from the first second on
RECURSIVE ClockStream(_, _)
ClockStream(values, baud_rate) ==
  IF values = <<>> THEN [transition_times |-> <<>>, states |-> <<>>]
  ELSE LET before == ClockStream(SubSeq(values, 1, Len(values) - 1), baud_rate)
           last == BarcodeTransitions(values[Len(values)],
                                      Len(values) * UnitsPerSecond, baud_rate, 0)
       IN [transition_times |-> before.transition_times \o last.transition_times,
           states |-> before.states \o last.states]

\* no call made yet
NoCall == [op |-> "none"]

\* ------------------------------------------------------------------ schema.py, reader.py

\* A register is [address, type, length, label, payloadSpec]: type is the
\* payload type tag of its dtype, length None for a single element, label the
\* column label that stands for its name, payloadSpec the <<label, offset>>
\* pairs of its members (empty when it has none).  A schema is its registers,
\* bitMasks and groupMasks, each a function from names; the optional masks
\* are NoMasks when None.

\* an Optional dict: None, or the dict given
NoMasks == [present |-> FALSE, entries |-> [n \in {} |-> "none"]]
Masks(entries) == [present |-> TRUE, entries |-> entries]

\* dict(common, **schema): the entries of both, the second taking precedence
MergeDicts(common, schema) ==
  [n \in (DOMAIN common) \cup (DOMAIN schema) |->
     IF n \in DOMAIN schema THEN schema[n] ELSE common[n]]

\* _read_common_registers(): the registers and masks of common.yml
CommonRegisters ==
  [registers |->
     [n \in {"WhoAmI", "OperationControl"} |->
        IF n = "WhoAmI"
          THEN [address |-> 0, type |-> np.uint16, length |-> None, label |-> 200,
                payloadSpec |-> <<>>]
          ELSE [address |-> 10, type |-> np.uint8, length |-> None, label |-> 210,
                payloadSpec |-> <<>>]],
   bitMasks |-> Masks([n \in {"ResetFlags"} |-> "common"]),
   groupMasks |-> Masks([n \in {"EnableFlag"} |-> "common"])]

\* if common.bitMasks: schema.bitMasks = common.bitMasks if schema.bitMasks
\* is None else dict(common.bitMasks, **schema.bitMasks); the same for groupMasks
MergeMasks(common, schema) ==
  IF ~common.present \/ DOMAIN common.entries = {} THEN schema
  ELSE IF ~schema.present THEN common
  ELSE Masks(MergeDicts(common.entries, schema.entries))

\* the else branch of read_schema (schema.py 35-49): the parsed schema, with
\* the common registers and masks merged in
ParsedSchema(schema, include_common_registers) ==
  IF "WhoAmI" \notin DOMAIN schema.registers /\ include_common_registers
    THEN [registers |-> MergeDicts(CommonRegisters.registers, schema.registers),
          bitMasks |-> MergeMasks(CommonRegisters.bitMasks, schema.bitMasks),
          groupMasks |-> MergeMasks(CommonRegisters.groupMasks, schema.groupMasks)]
    ELSE schema

\* read_schema(file, include_common_registers): a path is opened and its
\* stream read with return read_schema(fileIO), the second argument left to
\* its default
read_schema(file, include_common_registers) ==
  IF file.kind = "path"
    THEN ParsedSchema(file.content, TRUE)
    ELSE ParsedSchema(file.content, include_common_registers)

\* an argument of one read() call: passed with a value, or omitted
Omitted == [passed |-> FALSE, value |-> FALSE]
Passed(v) == [passed |-> TRUE, value |-> v]

\* a default that also stands in for an argument passed as None / False
ArgumentOrDefaultWhenUnset(arg, default) ==
  IF arg.passed /\ arg.value THEN arg.value ELSE default

\* epoch = params.epoch, keep_type = params.keep_type in the signatures of
\* reader and parser: the default bound when the reader was created is used
\* when the call omits the argument
ArgumentOrDefault(arg, default) == IF arg.passed THEN arg.value ELSE default

\* the epoch and keep_type of one call of reader or parser (reader.py 319-324,
\* 405-410), from the arguments of the call and the defaults in params
BoundArguments(params, epoch, keep_type) ==
  [epoch |-> ArgumentOrDefault(epoch, params.epoch),
   keep_type |-> ArgumentOrDefault(keep_type, params.keep_type)]

\* the register whose data file holds no message
EmptyFileAddress == 33

\* the bytes of f"{params.path}_{register.address}.bin": a READ and an EVENT
\* message of the register, timestamped
DataFile(register) ==
  IF register.address = EmptyFileAddress THEN <<>>
  ELSE DeviceBuffer([address |-> register.address, port |-> DefaultPort,
                     tag |-> SetTimestampBit(Lookup(payloadtypefromdtype, register.type)),
                     ncols |-> IF register.length = None THEN 1 ELSE register.length],
                    <<3, 2>>)

\* reader(file, columns, epoch, keep_type) of _create_register_reader, file
\* left to its default
RegisterRead(register, columns, epoch, keep_type) ==
  Fromraw(DataFile(register), register.address, register.type, register.length,
          columns, epoch, keep_type)

\* the parser of a register with a payloadSpec whose members have no mask:
\* DataFrame({n: df[offset]}, index=df.index)
PayloadSpecParser(register, df) ==
  [df EXCEPT !.columns = [m \in 1..Len(register.payloadSpec) |-> register.payloadSpec[m][1]],
             !.payload = [r \in 1..df.nrows |->
                            [m \in 1..Len(register.payloadSpec) |->
                               df.payload[r][register.payloadSpec[m][2] + 1]]],
             !.hasType = FALSE,
             !.kinds = <<>>]

\* parser(file, columns, epoch, keep_type) of _compose_parser: g, then f, then
\* the MessageType column of g's table when it has one
ComposedRead(register, columns, epoch, keep_type) ==
  LET res == RegisterRead(register, columns, epoch, keep_type)
  IN IF res.raised # "none" THEN res
     ELSE IF \E m \in 1..Len(register.payloadSpec) :
               register.payloadSpec[m][2] >= Len(res.tab.columns)
       THEN Raise("KeyError", 390)
     ELSE Ok([PayloadSpecParser(register, res.tab) EXCEPT
                !.hasType = res.tab.hasType, !.kinds = res.tab.kinds])

\* RegisterReader.read of the reader _create_register_parser builds for the
\* register (no maskType): composed with the payloadSpec parser, or
\* partial(reader, columns=[name])
ReadOf(register, params, epoch, keep_type) ==
  LET bound == BoundArguments(params, epoch, keep_type)
  IN IF register.payloadSpec # <<>>
       THEN ComposedRead(register, NoColumns, bound.epoch, bound.keep_type)
       ELSE RegisterRead(register, <<register.label>>, bound.epoch, bound.keep_type)

\* create_reader(device, include_common_registers, epoch, keep_type): the
\* schema, and the _ReaderParams every register reader is built with
create_reader(device, include_common_registers, epoch, keep_type) ==
  [schema |-> IF device.kind = "model" THEN device.content
              ELSE read_schema(device, include_common_registers),
   params |-> [epoch |-> epoch, keep_type |-> keep_type]]

\* RegisterReader(register, read): made tells the reader objects of one
\* register apart
RegisterReader(register, made) == [register |-> register, made |-> made]

\* RegisterMap.__init__(registers): UserDict keeps the items <<name, reader>>
\* in data, in order; _address_map = {value.register.address: value for value
\* in registers.values()}
RegisterMap(registers) ==
  [created |-> TRUE,
   data |-> registers,
   address_map |-> [i \in 1..Len(registers) |->
                      <<registers[i][2].register.address, registers[i][2]>>],
   edits |-> 0]

\* RegisterMap.__getitem__(key): an int is looked up in _address_map, any
\* other key in the items of the UserDict; a missing key raises KeyError
getitem(map, key, is_int) ==
  LET items == IF is_int THEN map.address_map ELSE map.data
  IN IF key \in Keys(items) THEN Returns(Lookup(items, key))
     ELSE Raises("KeyError", IF is_int THEN 58 ELSE 60)

\* UserDict.__setitem__(key, item): self.data[key] = item; the value of a key
\* the dict holds is replaced in place, a new key is added at the end
setitem(map, key, item) ==
  [map EXCEPT
     !.data = IF key \in Keys(map.data)
                THEN [i \in 1..Len(map.data) |->
                        IF map.data[i][1] = key THEN <<key, item>> ELSE map.data[i]]
                ELSE Append(map.data, <<key, item>>),
     !.edits = map.edits + 1]

\* UserDict.__delitem__(key): del self.data[key], of a key the dict holds
delitem(map, key) ==
  [map EXCEPT !.data = SelectSeq(map.data, LAMBDA item : item[1] # key),
              !.edits = map.edits + 1]

\* ------------------------------------------------------------------ reader inputs

\* the most read() calls made on the readers of one device
MaxReads == 2

\* the registers a device file may declare
DeviceRegisters ==
  [n \in {"WhoAmI", "OperationControl", "AnalogData", "AnalogDataPayloadSpec",
          "DigitalInputMode"} |->
     CASE n = "WhoAmI" ->
            [address |-> 0, type |-> np.uint16, length |-> None, label |-> 300,
             payloadSpec |-> <<>>]
       [] n = "OperationControl" ->
            [address |-> 10, type |-> np.uint16, length |-> None, label |-> 310,
             payloadSpec |-> <<>>]
       [] n = "AnalogData" ->
            [address |-> 44, type |-> np.int16, length |-> 2, label |-> 344,
             payloadSpec |-> <<>>]
       [] n = "AnalogDataPayloadSpec" ->
            [address |-> 45, type |-> np.int16, length |-> 2, label |-> 345,
             payloadSpec |-> <<(<<346, 0>>), (<<347, 1>>)>>]
       [] n = "DigitalInputMode" ->
            [address |-> EmptyFileAddress, type |-> np.uint8, length |-> None, label |-> 333,
             payloadSpec |-> <<>>]]

\* the schema of a device file that declares the registers named
DeviceSchema(names, masks) ==
  [registers |-> [n \in names |-> DeviceRegisters[n]],
   bitMasks |-> IF masks THEN Masks([n \in {"ResetFlags", "DigitalInputs"} |-> "device"])
                ELSE NoMasks,
   groupMasks |-> NoMasks]

\* device files as read_schema gets them: a file name or an open text stream
SchemaFiles ==
  {[kind |-> k, content |-> DeviceSchema(names, masks)] :
     k \in {"path", "stream"}, names \in SUBSET (DOMAIN DeviceRegisters),
     masks \in BOOLEAN}

\* the devices create_reader gets: the path of a device file, or a parsed Model
ReaderDevices ==
  {[kind |-> k, content |-> DeviceSchema(names, FALSE)] :
     k \in {"path", "model"},
     names \in {{"AnalogData"}, {"WhoAmI", "AnalogDataPayloadSpec"},
                {"AnalogDataPayloadSpec", "DigitalInputMode"}}}

\* the epoch and keep_type arguments of a read() call
ReadArguments == {Omitted, Passed(FALSE), Passed(TRUE)}

\* no reader created yet
NoDevice == [created |-> FALSE]

\* the most insertions, replacements and deletions made on one RegisterMap
MaxEdits == 2

\* the names of the registers, in the order of the device file
RegisterNames ==
  <<"WhoAmI", "OperationControl", "AnalogData", "AnalogDataPayloadSpec",
    "DigitalInputMode">>

\* the readers create_reader builds for the registers named, as the items
\* <<name, reader>> of reg_readers
RegisterReaders(names) ==
  LET kept == SelectSeq(RegisterNames, LAMBDA n : n \in names)
  IN [i \in 1..Len(kept) |-> <<kept[i], RegisterReader(DeviceRegisters[kept[i]], 0)>>]

\* the keys a caller sets: the names of two registers and a new name; the
\* readers a caller stores: another reader of AnalogData, and a reader of a
\* register with an address of its own
EditedNames == {"WhoAmI", "AnalogData", "Extra"}
StoredReaders ==
  {RegisterReader(DeviceRegisters["AnalogData"], 1),
   RegisterReader([DeviceRegisters["AnalogData"] EXCEPT !.address = 46], 1)}

\* no RegisterMap constructed yet
NoRegisterMap == [created |-> FALSE]

\* ------------------------------------------------------------------ the calls

VARIABLES origin, inBuf, inTab, calls, clockCall, schemaCall, device, reads,
          registers

\* the state of the codec calls and of the clock calls
codecVars == <<origin, inBuf, inTab, calls>>
clockVars == <<clockCall>>
readerVars == <<schemaCall, device, reads, registers>>

vars ==
  <<origin, inBuf, inTab, calls, clockCall, schemaCall, device, reads, registers>>

Init ==
  /\ origin = "none"
  /\ inBuf = <<>>
  /\ inTab = NoTable
  /\ calls = <<>>
  /\ clockCall = NoCall
  /\ schemaCall = NoCall
  /\ device = NoDevice
  /\ reads = <<>>
  /\ registers = NoRegisterMap

\* the caller holds the bytes of a file or of a buffer
LoadBuffer ==
  /\ origin = "none"
  /\ \E b \in InputBuffers : inBuf' = b
  /\ origin' = "buffer"
  /\ UNCHANGED <<inTab, calls>>
  /\ UNCHANGED <<clockVars, readerVars>>

\* the caller holds a table
LoadTable ==
  /\ origin = "none"
  /\ \E t \in InputTables : inTab' = t
  /\ origin' = "table"
  /\ UNCHANGED <<inBuf, calls>>
  /\ UNCHANGED <<clockVars, readerVars>>

ParseCall(h, o, res) ==
  [op |-> "parse", address |-> h[1], dtype |-> h[2], length |-> h[3],
   columns |-> o.columns, epoch |-> o.epoch, keep_type |-> o.keep_type,
   port |-> None, message_type |-> None, res |-> res]

FormatCall(a, res) ==
  [op |-> "format", address |-> a.address, dtype |-> a.dtype, length |-> None,
   columns |-> NoColumns, epoch |-> a.epoch, keep_type |-> FALSE,
   port |-> a.port, message_type |-> a.message_type, res |-> res]

\* parse(buffer, address, dtype, length, columns, epoch, keep_type) of the
\* loaded buffer, or of the buffer format has just returned
Parse ==
  /\ \/ origin = "buffer" /\ calls = <<>>
     \/ Len(calls) = 1 /\ calls[1].op = "format" /\ calls[1].res.raised = "none"
  /\ \E h \in ParseHints, o \in ParseOptions :
       LET data == IF calls = <<>> THEN inBuf ELSE calls[1].res.buf
       IN calls' = Append(calls, ParseCall(h, o,
                     Fromraw(data, h[1], h[2], h[3], o.columns, o.epoch, o.keep_type)))
  /\ UNCHANGED <<origin, inBuf, inTab>>
  /\ UNCHANGED <<clockVars, readerVars>>

\* astype is modelled between integer types only
CanCast(tab, dtype) ==
  dtype = None \/ (tab.dtype \in Keys(payloadtypefromdtype) /\ ~IsFloat(tab.dtype)
                   /\ ~IsFloat(dtype))

\* format(data, address, dtype, port, epoch, message_type) of the loaded
\* table, or of the table parse has just returned
FormatStep ==
  /\ \/ origin = "table" /\ calls = <<>>
     \/ Len(calls) = 1 /\ calls[1].op = "parse" /\ calls[1].res.raised = "none"
  /\ \E a \in FormatArgs :
       LET data == IF calls = <<>> THEN inTab ELSE calls[1].res.tab
       IN /\ CanCast(data, a.dtype)
          /\ calls' = Append(calls, FormatCall(a,
                        Format(data, a.address, a.dtype, a.port, a.epoch, a.message_type)))
  /\ UNCHANGED <<origin, inBuf, inTab>>
  /\ UNCHANGED <<clockVars, readerVars>>

Next == LoadBuffer \/ LoadTable \/ Parse \/ FormatStep

Spec == Init /\ [][Next]_vars

\* ------------------------------------------------------------------ the clock calls

\* get_barcode_edges(timestamps, min_delta)
GetBarcodeEdges ==
  /\ clockCall = NoCall
  /\ \E ts \in TransitionStreams, md \in MinDeltas :
       clockCall' = [op |-> "get_barcode_edges",
                     args |-> [timestamps |-> ts, min_delta |-> md],
                     res |-> Returns(get_barcode_edges(ts, md))]
  /\ UNCHANGED <<codecVars, readerVars>>

\* convert_barcode(transition_times, states, baud_rate) of the transitions of
\* one barcode, or of its first transition alone
ConvertBarcode ==
  /\ clockCall = NoCall
  /\ \E v \in ClockValues, baud \in BaudRates, j \in Jitters, whole \in BOOLEAN :
       LET b == BarcodeTransitions(v, 7 * (UnitsPerSecond \div baud), baud, j)
           tt == IF whole THEN b.transition_times ELSE SubSeq(b.transition_times, 1, 1)
           st == IF whole THEN b.states ELSE SubSeq(b.states, 1, 1)
       IN clockCall' = [op |-> "convert_barcode",
                        args |-> [v |-> v, whole |-> whole, jitter |-> j,
                                  transition_times |-> tt, states |-> st,
                                  baud_rate |-> baud],
                        res |-> convert_barcode(tt, st, baud)]
  /\ UNCHANGED <<codecVars, readerVars>>

\* remove_outliers(start_times, harp_times), the start times 1 s apart
RemoveOutliers ==
  /\ clockCall = NoCall
  /\ \E h \in HarpTimeArrays :
       LET st == [i \in 1..Len(h) |-> 10 * i]
       IN clockCall' = [op |-> "remove_outliers",
                        args |-> [start_times |-> st, harp_times |-> h],
                        res |-> remove_outliers(st, h)]
  /\ UNCHANGED <<codecVars, readerVars>>

\* align_timestamps_to_harp_clock(timestamps_to_align, start_times, harp_times),
\* also with one harp time missing
AlignTimestamps ==
  /\ clockCall = NoCall
  /\ \E a \in AnchorSets, paired \in BOOLEAN :
       LET h == IF paired THEN a.harp_times
                ELSE SubSeq(a.harp_times, 1, Len(a.harp_times) - 1)
           ts == QueriesOf(a.start_times)
       IN clockCall' = [op |-> "align_timestamps_to_harp_clock",
                        args |-> [timestamps_to_align |-> ts,
                                  start_times |-> a.start_times, harp_times |-> h],
                        res |-> align_timestamps_to_harp_clock(ts, a.start_times, h)]
  /\ UNCHANGED <<codecVars, readerVars>>

\* decode_harp_clock(timestamps, states, baud_rate) of a clock line
DecodeHarpClock ==
  /\ clockCall = NoCall
  /\ \E values \in StreamsOfValues, baud \in BaudRates :
       LET line == ClockStream(values, baud)
       IN clockCall' = [op |-> "decode_harp_clock",
                        args |-> [values |-> values,
                                  timestamps |-> line.transition_times,
                                  states |-> line.states, baud_rate |-> baud],
                        res |-> decode_harp_clock(line.transition_times, line.states,
                                                  baud)]
  /\ UNCHANGED <<codecVars, readerVars>>

ClockNext ==
  \/ GetBarcodeEdges
  \/ ConvertBarcode
  \/ RemoveOutliers
  \/ AlignTimestamps
  \/ DecodeHarpClock

ClockSpec == Init /\ [][ClockNext]_vars

\* ------------------------------------------------------------------ claims

\* the payload type tags and the element type of each, as the format gives
\* them: 1 u8, 2 u16, 4 u32, 8 u64, 129 i8, 130 i16, 132 i32, 136 i64, 68 f32
SupportedTags == {1, 2, 4, 8, 129, 130, 132, 136, 68}
TypeOfTag(tag) ==
  CASE tag = 1 -> np.uint8
    [] tag = 2 -> np.uint16
    [] tag = 4 -> np.uint32
    [] tag = 8 -> np.uint64
    [] tag = 129 -> np.int8
    [] tag = 130 -> np.int16
    [] tag = 132 -> np.int32
    [] tag = 136 -> np.int64
    [] tag = 68 -> np.float32
TagOfType(dtype) == CHOOSE tag \in SupportedTags : TypeOfTag(tag) = dtype

\* the input of call i: the loaded buffer or table, or the result of call 1
DataOf(i) == IF i = 1 THEN inBuf ELSE calls[1].res.buf
TableOf(i) == IF i = 1 THEN inTab ELSE calls[1].res.tab

ParseCalls == {i \in 1..Len(calls) : calls[i].op = "parse"}
FormatCalls == {i \in 1..Len(calls) : calls[i].op = "format"}
Returned(i) == calls[i].res.raised = "none"

\* message m (from 0) of a buffer of messages of n bytes each
Message(b, m, n) == SubSeq(b, m * n + 1, (m + 1) * n)

\* the largest length byte whose stride (byte 1 + 2) fits eight bits
MaxLengthByte == 253

NoHints(i) ==
  calls[i].address = None /\ calls[i].dtype = None /\ calls[i].length = None

\* a well-formed single-register buffer: a whole number of messages that
\* share length byte, address, port and payload type tag, a supported tag,
\* one or more whole payload elements, a message kind, the checksum
WellFormed(b) ==
  /\ Len(b) >= 6
  /\ At(b, 1) <= MaxLengthByte
  /\ LET n == At(b, 1) + 2
         base == ClearTimestampBit(At(b, 4))
         size == n - 6 - (IF HasTimestampBit(At(b, 4)) THEN 6 ELSE 0)
     IN /\ Len(b) % n = 0
        /\ base \in SupportedTags
        /\ size > 0
        /\ size % itemsize(TypeOfTag(base)) = 0
        /\ \A m \in 0..(Len(b) \div n - 1) :
             LET msg == Message(b, m, n)
             IN /\ msg[1] \in {NA, READ, WRITE, EVENT}
                /\ SubSeq(msg, 2, 5) = SubSeq(b, 2, 5)
                /\ msg[n] = SumSeq(SubSeq(msg, 1, n - 1)) % 256

\* the tick counter of every message of a well-formed timestamped buffer is
\* below one second (31250 ticks)
TicksBelowSecond(b) ==
  HasTimestampBit(At(b, 4)) =>
    \A m \in 0..(Len(b) \div (At(b, 1) + 2) - 1) :
      At(b, m * (At(b, 1) + 2) + 9) + 256 * At(b, m * (At(b, 1) + 2) + 10) < 31250

\* parse(B, keep_type=True) has been evaluated on a well-formed buffer B
ParseOfWellFormed ==
  /\ origin = "buffer"
  /\ Len(calls) >= 1
  /\ WellFormed(inBuf)
  /\ calls[1].op = "parse" /\ calls[1].keep_type /\ ~calls[1].epoch
  /\ calls[1].columns = NoColumns /\ NoHints(1)

\* format(parse(B, keep_type=True), address=B[2]) has been evaluated
RoundTripCase ==
  /\ origin = "buffer"
  /\ Len(calls) = 2
  /\ WellFormed(inBuf)
  /\ calls[1].op = "parse" /\ calls[1].keep_type /\ ~calls[1].epoch
  /\ calls[1].columns = NoColumns
  /\ calls[2].op = "format" /\ calls[2].address = At(inBuf, 2)
  /\ calls[2].dtype = None /\ calls[2].port = None /\ ~calls[2].epoch
  /\ calls[2].message_type = None

\* C1 as stated: format(parse(B, keep_type=True), address=B[2]) returns B for
\* every well-formed buffer B, any port and any tick value
C1_RoundTripAnyPortAnyTick ==
  /\ ParseOfWellFormed => Returned(1)
  /\ RoundTripCase => Returned(2) /\ calls[2].res.buf = inBuf

\* C1 amended: format(parse(B, keep_type=True), address=B[2]) returns exactly
\* B for every well-formed buffer B whose port byte is 255 and whose tick
\* counters are below 31250
C1_RoundTrip ==
  /\ ParseOfWellFormed => Returned(1)
  /\ (RoundTripCase /\ At(inBuf, 3) = DefaultPort /\ TicksBelowSecond(inBuf))
       => Returned(2) /\ calls[2].res.buf = inBuf

C1_Witness ==
  /\ RoundTripCase /\ At(inBuf, 3) = DefaultPort /\ TicksBelowSecond(inBuf)
  /\ HasTimestampBit(At(inBuf, 4))
  /\ Len(inBuf) = 2 * (At(inBuf, 1) + 2)
  /\ At(inBuf, (At(inBuf, 1) + 2) + 9) + 256 * At(inBuf, (At(inBuf, 1) + 2) + 10) = 31249
  /\ calls[2].res.buf = inBuf

\* C2: in every message format produces, the last byte is the sum of all the
\* preceding bytes of that message modulo 256
C2_Checksum ==
  \A i \in FormatCalls :
    (Returned(i) /\ TableOf(i).nrows > 0) =>
      LET buf == calls[i].res.buf
          n == Len(buf) \div TableOf(i).nrows
      IN \A m \in 0..(TableOf(i).nrows - 1) :
           Message(buf, m, n)[n] = SumSeq(SubSeq(Message(buf, m, n), 1, n - 1)) % 256

C2_Witness ==
  \E i \in FormatCalls :
    /\ Returned(i) /\ TableOf(i).nrows = 2 /\ TableOf(i).index = "float"
    /\ LET buf == calls[i].res.buf
           n == Len(buf) \div 2
       IN /\ SumSeq(SubSeq(Message(buf, 1, n), 1, n - 1)) > 256
          /\ Message(buf, 1, n)[n] = SumSeq(SubSeq(Message(buf, 1, n), 1, n - 1)) % 256

\* the bytes of the header and of the timestamp are present, the payload type
\* is supported, the length byte leaves room for header and checksum
Decodable(b) ==
  /\ Len(b) >= 5
  /\ At(b, 1) <= MaxLengthByte
  /\ ClearTimestampBit(At(b, 4)) \in SupportedTags
  /\ LET offset == IF HasTimestampBit(At(b, 4)) THEN 11 ELSE 5
     IN /\ At(b, 1) + 2 >= offset + 1
        /\ Len(b) >= offset

\* the element count of the first message: payload bytes over element size
CountOf(b) ==
  (At(b, 1) + 2 - (IF HasTimestampBit(At(b, 4)) THEN 11 ELSE 5) - 1)
     \div itemsize(TypeOfTag(ClearTimestampBit(At(b, 4))))

\* the column labels fit the element count, the kinds are named when kept
OptionsFit(i) ==
  /\ calls[i].columns = NoColumns \/ Len(calls[i].columns) = CountOf(DataOf(i))
  /\ calls[i].keep_type =>
       \A m \in 0..(Len(DataOf(i)) \div (At(DataOf(i), 1) + 2) - 1) :
         At(DataOf(i), m * (At(DataOf(i), 1) + 2)) <= EVENT

\* a hint of call i disagrees with the first message
WrongAddress(i) ==
  calls[i].address # None /\ Len(DataOf(i)) >= 3
    /\ calls[i].address # At(DataOf(i), 2)
WrongDtype(i) ==
  calls[i].dtype # None /\ Len(DataOf(i)) >= 5
    /\ ClearTimestampBit(At(DataOf(i), 4)) \in SupportedTags
    /\ calls[i].dtype # TypeOfTag(ClearTimestampBit(At(DataOf(i), 4)))
WrongLength(i) ==
  calls[i].length # None /\ Len(DataOf(i)) >= 5
    /\ ClearTimestampBit(At(DataOf(i), 4)) \in SupportedTags
    /\ At(DataOf(i), 1) + 2 >= (IF HasTimestampBit(At(DataOf(i), 4)) THEN 12 ELSE 6)
    /\ calls[i].length # CountOf(DataOf(i))

\* C3 as stated: on any non-empty buffer, parse raises ValueError whenever an
\* expected address, dtype or length is wrong, and never raises without them
C3_ValidationAnyBuffer ==
  \A i \in ParseCalls :
    Len(DataOf(i)) > 0 =>
      /\ (WrongAddress(i) \/ WrongDtype(i) \/ WrongLength(i))
           => calls[i].res.raised = "ValueError"
      /\ NoHints(i) => Returned(i)

\* C3 amended: parse raises ValueError whenever an expected address, dtype or
\* length is wrong; without them it does not raise on a buffer whose header
\* can be decoded (at least 5 bytes, 11 when timestamped, a supported payload
\* type, a length byte that leaves room for header and checksum), given
\* column labels that number the elements and, with keep_type, kinds 0..3
C3_Validation ==
  \A i \in ParseCalls :
    Len(DataOf(i)) > 0 =>
      /\ (WrongAddress(i) \/ WrongDtype(i) \/ WrongLength(i))
           => calls[i].res.raised = "ValueError"
      /\ (NoHints(i) /\ Decodable(DataOf(i)) /\ OptionsFit(i)) => Returned(i)

C3_Witness ==
  \E i \in ParseCalls :
    /\ Decodable(DataOf(i))
    /\ calls[i].address = None /\ calls[i].dtype = None
    /\ WrongLength(i)
    /\ calls[i].res.raised = "ValueError" /\ calls[i].res.line = 165

\* C4: parsing a zero-length buffer returns a zero-row table that carries the
\* requested columns, with a datetime index when an epoch is given and a
\* numeric index when none is
C4_EmptyBuffer ==
  \A i \in ParseCalls :
    Len(DataOf(i)) = 0 =>
      /\ Returned(i)
      /\ calls[i].res.tab.nrows = 0
      /\ calls[i].columns # NoColumns => calls[i].res.tab.columns = calls[i].columns
      /\ calls[i].epoch => calls[i].res.tab.index = "datetime"
      /\ ~calls[i].epoch => calls[i].res.tab.index \in {"float", "range"}

\* the length of the buffer is no multiple of the stride of its first message
NotWholeMessages(b) == Len(b) >= 2 /\ Len(b) % (At(b, 1) + 2) # 0

\* C5 as stated: parse of any non-empty buffer whose length is no multiple of
\* the stride does not raise and returns floor(length / stride) rows
C5_TruncatedAnyBuffer ==
  \A i \in ParseCalls :
    (NotWholeMessages(DataOf(i)) /\ NoHints(i) /\ calls[i].columns = NoColumns
       /\ ~calls[i].keep_type)
      => /\ Returned(i)
         /\ calls[i].res.tab.nrows = Len(DataOf(i)) \div (At(DataOf(i), 1) + 2)

\* C5 amended: parse of a buffer whose length is no multiple of the stride
\* and whose header can be decoded (at least 5 bytes, 11 when timestamped, a
\* supported payload type, a length byte that leaves room for header and
\* checksum) does not raise and returns floor(length / stride) rows
C5_Truncated ==
  \A i \in ParseCalls :
    (NotWholeMessages(DataOf(i)) /\ NoHints(i) /\ Decodable(DataOf(i))
       /\ OptionsFit(i))
      => /\ Returned(i)
         /\ calls[i].res.tab.nrows = Len(DataOf(i)) \div (At(DataOf(i), 1) + 2)

C5_Witness ==
  \E i \in ParseCalls :
    /\ NotWholeMessages(DataOf(i)) /\ NoHints(i) /\ Decodable(DataOf(i))
    /\ Len(DataOf(i)) > 2 * (At(DataOf(i), 1) + 2)
    /\ Returned(i)
    /\ calls[i].res.tab.nrows = 2

\* the time <<s, u>> of seconds + ticks * 32e-6
SecondsPlusTicks(seconds, ticks) ==
  <<seconds + (ticks * 32) \div 1000000, (ticks * 32) % 1000000>>

\* C6: parse gives the rows a timestamp index iff bit 0x10 of byte 4 is set;
\* then row r has the time seconds + ticks * 32e-6 of the little-endian
\* counters at offsets 5 and 9 of its message, the element type is the tag
\* without the bit and the payload starts at offset 11; otherwise the payload
\* starts at offset 5 and the table has no timestamp
C6_TimestampLayout ==
  \A i \in ParseCalls :
    (Len(DataOf(i)) > 0 /\ Returned(i)) =>
      LET b == DataOf(i)
          t == calls[i].res.tab
          n == At(b, 1) + 2
          flagged == (At(b, 4) \div 16) % 2 = 1
          start == IF flagged THEN 11 ELSE 5
      IN /\ (t.index # "range") <=> flagged
         /\ t.dtype = TypeOfTag(IF flagged THEN At(b, 4) - 16 ELSE At(b, 4))
         /\ flagged =>
              /\ Len(t.time) = t.nrows
              /\ \A r \in 1..t.nrows :
                   t.time[r] =
                     SecondsPlusTicks(
                       At(b, (r - 1) * n + 5) + 256 * At(b, (r - 1) * n + 6)
                         + 65536 * At(b, (r - 1) * n + 7)
                         + 16777216 * At(b, (r - 1) * n + 8),
                       At(b, (r - 1) * n + 9) + 256 * At(b, (r - 1) * n + 10))
         /\ ~flagged => t.time = <<>>
         /\ \A r \in 1..t.nrows :
              Flatten(t.payload[r]) =
                SubSeq(b, (r - 1) * n + start + 1,
                       (r - 1) * n + start + Len(t.payload[r]) * itemsize(t.dtype))

C6_Witness ==
  \E i \in ParseCalls :
    /\ Returned(i)
    /\ Len(DataOf(i)) > 0
    /\ HasTimestampBit(At(DataOf(i), 4))
    /\ calls[i].res.tab.nrows = 2
    /\ calls[i].res.tab.index = "float"
    /\ calls[i].res.tab.time[2] = <<3806874, 999968>>
    /\ Len(calls[i].res.tab.payload[2]) = 2

\* the distance in microseconds between two times less than a minute apart
Distance(t1, t2) ==
  LET d == (t1[1] - t2[1]) * 1000000 + (t1[2] - t2[2])
  IN IF d < 0 THEN -d ELSE d

\* parse(format(table)) has been evaluated on a table with a time index
TimestampRoundTripCase ==
  /\ origin = "table"
  /\ Len(calls) = 2
  /\ calls[1].op = "format" /\ Returned(1)
  /\ inTab.nrows > 0
  /\ inTab.index # "range"
  /\ calls[2].op = "parse" /\ NoHints(2) /\ calls[2].columns = NoColumns

\* C7: a timestamp that is formatted and then parsed comes back within one
\* tick (32 microseconds), also when its fraction rounds up to 31250 ticks
C7_TimestampPrecision ==
  TimestampRoundTripCase =>
    /\ Returned(2)
    /\ calls[2].res.tab.nrows = inTab.nrows
    /\ \A r \in 1..inTab.nrows :
         Distance(calls[2].res.tab.time[r], inTab.time[r]) <= 32

C7_Witness ==
  /\ TimestampRoundTripCase
  /\ Returned(2)
  /\ inTab.time[1] = <<16909060, 999984>>
  /\ calls[1].res.buf[10] = 18 /\ calls[1].res.buf[11] = 122
  /\ calls[2].res.tab.time[1] = <<16909061, 0>>

\* C8: with keep_type the table parse returns has a MessageType column with
\* one entry per message, the kind named by byte 0 of the message, for every
\* buffer, the zero-length one included
C8_MessageTypeColumn ==
  \A i \in ParseCalls :
    (calls[i].keep_type /\ Returned(i)) =>
      LET b == DataOf(i)
          t == calls[i].res.tab
      IN /\ t.hasType
         /\ Len(t.kinds) = t.nrows
         /\ \A r \in 1..t.nrows :
              /\ t.kinds[r] = At(b, (r - 1) * (At(b, 1) + 2))
              /\ t.kinds[r] \in {NA, READ, WRITE, EVENT}

\* C9: format of a non-empty table returns row_count * stride bytes, stride
\* being the payload bytes of a row plus 6, plus 6 more when timestamped; in
\* every message byte 1 is stride - 2, byte 2 the address, byte 3 the port
\* (255 when none is given) and byte 4 the tag of the element type with bit
\* 0x10 set iff timestamped
C9_HeaderLayout ==
  \A i \in FormatCalls :
    (Returned(i) /\ TableOf(i).nrows > 0) =>
      LET t == TableOf(i)
          buf == calls[i].res.buf
          stamped == calls[i].epoch \/ t.index # "range"
          element == IF calls[i].dtype # None THEN calls[i].dtype ELSE t.dtype
          n == Len(t.payload[1]) * itemsize(element) + 6
                 + (IF stamped THEN 6 ELSE 0)
      IN /\ Len(buf) = t.nrows * n
         /\ \A m \in 0..(t.nrows - 1) :
              /\ At(buf, m * n + 1) = n - 2
              /\ At(buf, m * n + 2) = calls[i].address
              /\ At(buf, m * n + 3) =
                   (IF calls[i].port = None THEN 255 ELSE calls[i].port)
              /\ At(buf, m * n + 4) = TagOfType(element) + (IF stamped THEN 16 ELSE 0)

C9_Witness ==
  \E i \in FormatCalls :
    /\ Returned(i)
    /\ TableOf(i).nrows = 2
    /\ TableOf(i).index = "datetime"
    /\ ~TableOf(i).hasType
    /\ calls[i].dtype = np.int8 /\ TableOf(i).dtype = np.uint32
    /\ Len(calls[i].res.buf) = 2 * 14
    /\ SubSeq(calls[i].res.buf, 15, 19) = <<READ, 12, 32, 1, 145>>

\* C10 as stated: format omits the timestamp when no epoch is given and the
\* index of the table is non-positional
C10_OmittedWhenNonPositional ==
  \A i \in FormatCalls :
    (Returned(i) /\ TableOf(i).nrows > 0 /\ ~calls[i].epoch
       /\ TableOf(i).index # "range")
      => /\ ~HasTimestampBit(At(calls[i].res.buf, 4))
         /\ Len(calls[i].res.buf) =
              TableOf(i).nrows * (At(calls[i].res.buf, 1) + 2)
         /\ At(calls[i].res.buf, 1) + 2 = 6 + Len(Flatten(TableOf(i).payload[1]))

\* C10 amended: format omits the timestamp (bit 0x10 clear, no seconds and
\* tick bytes, stride without the extra 6 bytes) when no epoch is given and
\* the index of the table is positional (a RangeIndex); with any other index
\* the buffer it returns carries the timestamp
C10_OmittedWhenPositional ==
  \A i \in FormatCalls :
    (Returned(i) /\ TableOf(i).nrows > 0 /\ ~calls[i].epoch) =>
      LET buf == calls[i].res.buf
          bytes == Len(TableOf(i).payload[1])
                     * itemsize(TypeOfTag(ClearTimestampBit(At(buf, 4))))
      IN /\ TableOf(i).index = "range" =>
              /\ ~HasTimestampBit(At(buf, 4))
              /\ Len(buf) = TableOf(i).nrows * (6 + bytes)
              /\ At(buf, 1) + 2 = 6 + bytes
         /\ TableOf(i).index # "range" =>
              /\ HasTimestampBit(At(buf, 4))
              /\ Len(buf) = TableOf(i).nrows * (12 + bytes)
              /\ At(buf, 1) + 2 = 12 + bytes

C10_Witness ==
  \E i \in FormatCalls :
    /\ Returned(i) /\ ~calls[i].epoch
    /\ TableOf(i).nrows = 2 /\ TableOf(i).index = "range"
    /\ calls[i].message_type = WRITE /\ ~TableOf(i).hasType
    /\ ~HasTimestampBit(At(calls[i].res.buf, 4))
    /\ Len(calls[i].res.buf) = 2 * (6 + Len(Flatten(TableOf(i).payload[1])))

\* C11 as stated: format takes the kind of message i from row i of the
\* MessageType column, or from message_type when the table has no such
\* column, and raises ValueError without a buffer when neither is supplied,
\* for any table
C11_KindFromColumnOrArgumentAnyTable ==
  \A i \in FormatCalls :
    LET t == TableOf(i)
        buf == calls[i].res.buf
        n == IF t.nrows = 0 THEN 0 ELSE Len(buf) \div t.nrows
    IN /\ (~t.hasType /\ calls[i].message_type = None)
            => calls[i].res.raised = "ValueError" /\ buf = <<>>
       /\ (Returned(i) /\ t.hasType) =>
            \A m \in 0..(t.nrows - 1) : At(buf, m * n) = t.kinds[m + 1]
       /\ (Returned(i) /\ ~t.hasType) =>
            \A m \in 0..(t.nrows - 1) : At(buf, m * n) = calls[i].message_type

\* C11 amended: format of a table of one or more rows takes the kind of
\* message i from row i of the MessageType column, or from message_type when
\* the table has no such column, and raises ValueError without a buffer when
\* neither is supplied; a table without rows gives the empty buffer
C11_KindFromColumnOrArgument ==
  \A i \in FormatCalls :
    LET t == TableOf(i)
        buf == calls[i].res.buf
        n == IF t.nrows = 0 THEN 0 ELSE Len(buf) \div t.nrows
    IN /\ (t.nrows > 0 /\ ~t.hasType /\ calls[i].message_type = None)
            => calls[i].res.raised = "ValueError" /\ buf = <<>>
       /\ t.nrows = 0 => Returned(i) /\ buf = <<>>
       /\ (Returned(i) /\ t.hasType) =>
            \A m \in 0..(t.nrows - 1) : At(buf, m * n) = t.kinds[m + 1]
       /\ (Returned(i) /\ ~t.hasType) =>
            \A m \in 0..(t.nrows - 1) : At(buf, m * n) = calls[i].message_type

C11_Witness ==
  \E i \in FormatCalls :
    /\ Returned(i)
    /\ TableOf(i).hasType /\ TableOf(i).nrows = 2
    /\ TableOf(i).kinds[1] # TableOf(i).kinds[2]
    /\ calls[i].message_type # None
    /\ calls[i].message_type # TableOf(i).kinds[1]
    /\ At(calls[i].res.buf, 0) = TableOf(i).kinds[1]
    /\ At(calls[i].res.buf, Len(calls[i].res.buf) \div 2) = TableOf(i).kinds[2]

\* the stride of the first message of b, and the offset of its payload
StrideOf(b) == At(b, 1) + 2
OffsetOf(b) == IF HasTimestampBit(At(b, 4)) THEN 11 ELSE 5

\* b holds two or more whole messages of the stride of the first, the first is
\* well formed, and a later one carries another length byte, address or
\* payload type tag
LaterDiffers(b) ==
  /\ Len(b) >= 12
  /\ Len(b) % StrideOf(b) = 0
  /\ Len(b) >= 2 * StrideOf(b)
  /\ WellFormed(SubSeq(b, 1, StrideOf(b)))
  /\ \E m \in 1..(Len(b) \div StrideOf(b) - 1) :
       \E k \in {1, 2, 4} : At(b, m * StrideOf(b) + k) # At(b, k)

\* b with the length byte, address and payload type tag of the first message
\* in every later message
RECURSIVE Uniform(_, _)
Uniform(b, m) ==
  IF m = 0 THEN b
  ELSE WithByte(WithByte(WithByte(Uniform(b, m - 1),
                                  m * StrideOf(b) + 1, At(b, 1)),
                         m * StrideOf(b) + 2, At(b, 2)),
                m * StrideOf(b) + 4, At(b, 4))

\* the hints of call i are absent or agree with the first message
HintsAgreeWithFirst(i) ==
  /\ calls[i].address \in {None, At(DataOf(i), 2)}
  /\ calls[i].dtype \in {None, TypeOfTag(ClearTimestampBit(At(DataOf(i), 4)))}
  /\ calls[i].length \in {None, CountOf(DataOf(i))}

\* C22: parse holds the expected address, dtype and length against the first
\* message only and takes stride, timestamp presence, element type and element
\* count from the first message only: a buffer whose later messages carry a
\* different address, length byte or payload type tag is decoded with the
\* layout of the first message, without any error, to the table of the buffer
\* that repeats the header of the first message
C22_FirstMessageOnly ==
  \A i \in ParseCalls :
    LaterDiffers(DataOf(i)) =>
      LET b == DataOf(i)
          n == StrideOf(b)
          size == itemsize(TypeOfTag(ClearTimestampBit(At(b, 4))))
          tab == calls[i].res.tab
      IN /\ (HintsAgreeWithFirst(i) /\ OptionsFit(i)) =>
              /\ Returned(i)
              /\ tab.nrows = Len(b) \div n
              /\ tab.dtype = TypeOfTag(ClearTimestampBit(At(b, 4)))
              /\ (tab.index # "range") = HasTimestampBit(At(b, 4))
              /\ \A r \in 1..tab.nrows :
                   /\ Len(tab.payload[r]) = CountOf(b)
                   /\ \A c \in 1..CountOf(b) :
                        tab.payload[r][c]
                          = SubSeq(b, (r - 1) * n + OffsetOf(b) + (c - 1) * size + 1,
                                   (r - 1) * n + OffsetOf(b) + c * size)
         /\ ~HintsAgreeWithFirst(i) => calls[i].res.raised = "ValueError"
         /\ calls[i].res
              = Fromraw(Uniform(b, Len(b) \div n - 1), calls[i].address, calls[i].dtype,
                        calls[i].length, calls[i].columns, calls[i].epoch,
                        calls[i].keep_type)

C22_Witness ==
  \E i \in ParseCalls :
    /\ LaterDiffers(DataOf(i))
    /\ At(DataOf(i), StrideOf(DataOf(i)) + 2) # At(DataOf(i), 2)
    /\ calls[i].address = At(DataOf(i), 2)
    /\ HasTimestampBit(At(DataOf(i), 4))
    /\ Returned(i)
    /\ calls[i].res.tab.nrows = 2
    /\ calls[i].res.tab.index = "float"

\* the element type format writes in call i: the dtype argument, or the type
\* of the table
ElementTypeOf(i) ==
  IF calls[i].dtype # None THEN calls[i].dtype ELSE TableOf(i).dtype

\* C23: the payload type table is a bijection between the nine tags 1, 2, 4,
\* 8, 129, 130, 132, 136, 68 and the nine element types (tag -> type -> tag
\* and type -> tag -> type are identities); no base tag has bit 0x10 set, so
\* setting the timestamp bit on encode and clearing it on decode returns the
\* same base tag; the element size in bytes of each type equals the low four
\* bits of its tag.  parse and format use it so: the table parse returns has
\* the type of the tag of byte 4 and elements of that many bytes, format
\* writes the tag of the element type, and a tag or a type survives a round
\* trip through both (the table is the same in every state: it is examined in
\* the states before the first call)
C23_PayloadTypeTable ==
  /\ calls = <<>> =>
       /\ Len(dtypefrompayloadtype) = 9
       /\ Keys(dtypefrompayloadtype) = SupportedTags
       /\ Cardinality(Keys(payloadtypefromdtype)) = 9
       /\ \A tag \in Keys(dtypefrompayloadtype) :
            /\ Lookup(dtypefrompayloadtype, tag) = TypeOfTag(tag)
            /\ Lookup(payloadtypefromdtype, Lookup(dtypefrompayloadtype, tag)) = tag
            /\ ~HasTimestampBit(tag)
            /\ ClearTimestampBit(SetTimestampBit(tag)) = tag
            /\ itemsize(Lookup(dtypefrompayloadtype, tag)) = tag % 16
       /\ \A dtype \in Keys(payloadtypefromdtype) :
            Lookup(dtypefrompayloadtype, Lookup(payloadtypefromdtype, dtype)) = dtype
  /\ \A i \in ParseCalls :
       (Returned(i) /\ Len(DataOf(i)) > 0) =>
         LET base == ClearTimestampBit(At(DataOf(i), 4))
             tab == calls[i].res.tab
         IN /\ base \in SupportedTags
            /\ tab.dtype = TypeOfTag(base)
            /\ \A r \in 1..tab.nrows : \A c \in 1..Len(tab.payload[r]) :
                 Len(tab.payload[r][c]) = base % 16
  /\ \A i \in FormatCalls :
       (Returned(i) /\ TableOf(i).nrows > 0) =>
         LET tag == At(calls[i].res.buf, 4)
         IN /\ ClearTimestampBit(tag) \in SupportedTags
            /\ TypeOfTag(ClearTimestampBit(tag)) = ElementTypeOf(i)
            /\ HasTimestampBit(tag) = (calls[i].epoch \/ TableOf(i).index # "range")
  /\ (Len(calls) = 2 /\ Returned(1) /\ Returned(2)) =>
       /\ (calls[1].op = "parse" /\ calls[2].dtype = None
             /\ calls[1].res.tab.nrows > 0 /\ ~calls[2].epoch)
            => At(calls[2].res.buf, 4) = At(inBuf, 4)
       /\ (calls[1].op = "format" /\ inTab.nrows > 0)
            => calls[2].res.tab.dtype = ElementTypeOf(1)

C23_Witness ==
  /\ origin = "buffer"
  /\ Len(calls) = 2
  /\ Len(inBuf) >= 5
  /\ At(inBuf, 4) = 152
  /\ calls[1].op = "parse" /\ Returned(1)
  /\ calls[1].res.tab.dtype = np.int64
  /\ calls[1].res.tab.nrows = 2
  /\ Len(calls[1].res.tab.payload[1]) = 2
  /\ Len(calls[1].res.tab.payload[1][1]) = 8
  /\ calls[2].dtype = None /\ Returned(2)
  /\ At(calls[2].res.buf, 4) = 152

\* b holds whole messages of the stride of the first, whose header can be
\* decoded: the last byte of each message is its checksum byte
WholeMessages(b) ==
  /\ Decodable(b)
  /\ Len(b) >= StrideOf(b)
  /\ Len(b) % StrideOf(b) = 0

\* the python offset of the checksum byte of message m (from 0) of b
ChecksumOffset(b, m) == (m + 1) * StrideOf(b) - 1

\* b with the checksum byte of the messages 0..m-1 set to v, or to the sum of
\* the bytes before it modulo 256 when v is None
RECURSIVE WithChecksums(_, _, _)
WithChecksums(b, m, v) ==
  IF m = 0 THEN b
  ELSE WithByte(WithChecksums(b, m - 1, v), ChecksumOffset(b, m - 1),
                IF v # None THEN v
                ELSE SumSeq(SubSeq(Message(b, m - 1, StrideOf(b)), 1, StrideOf(b) - 1))
                       % 256)

\* parse of the buffer b with the arguments of call i
ParseOf(b, i) ==
  Fromraw(b, calls[i].address, calls[i].dtype, calls[i].length, calls[i].columns,
          calls[i].epoch, calls[i].keep_type)

\* C24: parse never reads the checksum byte: two buffers of whole messages
\* that differ only in the last byte of some messages decode to identical
\* tables (or fail alike), and a buffer whose checksum bytes are wrong is
\* accepted without error
C24_ChecksumNotRead ==
  \A i \in ParseCalls :
    WholeMessages(DataOf(i)) =>
      LET b == DataOf(i)
          count == Len(b) \div StrideOf(b)
          right == WithChecksums(b, count, None)
      IN /\ \A m \in 0..(count - 1) :
              ParseOf(WithByte(b, ChecksumOffset(b, m),
                               (At(b, ChecksumOffset(b, m)) + 1) % 256), i)
                = calls[i].res
         /\ ParseOf(WithChecksums(b, count, 0), i) = calls[i].res
         /\ ParseOf(right, i) = calls[i].res
         /\ (b # right /\ WellFormed(right) /\ HintsAgreeWithFirst(i) /\ OptionsFit(i))
              => Returned(i) /\ calls[i].res.tab.nrows = count

C24_Witness ==
  \E i \in ParseCalls :
    /\ WholeMessages(DataOf(i))
    /\ Len(DataOf(i)) = 2 * StrideOf(DataOf(i))
    /\ WellFormed(WithChecksums(DataOf(i), 2, None))
    /\ At(DataOf(i), ChecksumOffset(DataOf(i), 1))
         # At(WithChecksums(DataOf(i), 2, None), ChecksumOffset(DataOf(i), 1))
    /\ calls[i].keep_type
    /\ Returned(i)
    /\ calls[i].res.tab.nrows = 2
    /\ calls[i].res = ParseOf(WithChecksums(DataOf(i), 2, None), i)

\* ------------------------------------------------------------------ the reader calls

\* read_schema(file, include_common_registers)
ReadSchema ==
  /\ schemaCall = NoCall /\ device = NoDevice
  /\ \E f \in SchemaFiles, inc \in BOOLEAN :
       schemaCall' = [op |-> "read_schema", file |-> f,
                      include_common_registers |-> inc,
                      res |-> read_schema(f, inc)]
  /\ UNCHANGED <<device, reads, registers, codecVars, clockVars>>

\* reader = create_reader(device, include_common_registers, epoch, keep_type)
CreateReader ==
  /\ schemaCall = NoCall /\ device = NoDevice
  /\ \E d \in ReaderDevices, inc \in BOOLEAN, e \in BOOLEAN, k \in BOOLEAN :
       device' = [created |-> TRUE,
                  args |-> [device |-> d, include_common_registers |-> inc,
                            epoch |-> e, keep_type |-> k],
                  reader |-> create_reader(d, inc, e, k)]
  /\ UNCHANGED <<schemaCall, reads, registers, codecVars, clockVars>>

\* reader.registers[name].read(epoch=..., keep_type=...), either argument
\* passed or omitted
ReadRegister ==
  /\ device.created
  /\ Len(reads) < MaxReads
  /\ \E n \in DOMAIN device.reader.schema.registers,
        e \in ReadArguments, k \in ReadArguments :
       reads' = Append(reads,
                  [name |-> n, epoch |-> e, keep_type |-> k,
                   bound |-> BoundArguments(device.reader.params, e, k),
                   res |-> ReadOf(device.reader.schema.registers[n],
                                  device.reader.params, e, k)])
  /\ UNCHANGED <<schemaCall, device, registers, codecVars, clockVars>>

ReaderNext == ReadSchema \/ CreateReader \/ ReadRegister

ReaderSpec == Init /\ [][ReaderNext]_vars

\* ------------------------------------------------------------------ the map calls

\* registers = RegisterMap(reg_readers)
NewRegisterMap ==
  /\ ~registers.created
  /\ \E names \in SUBSET (DOMAIN DeviceRegisters) :
       registers' = RegisterMap(RegisterReaders(names))
  /\ UNCHANGED <<schemaCall, device, reads, codecVars, clockVars>>

\* registers[name] = reader: an insertion or a replacement
SetItem ==
  /\ registers.created
  /\ registers.edits < MaxEdits
  /\ \E name \in EditedNames, reader \in StoredReaders :
       registers' = setitem(registers, name, reader)
  /\ UNCHANGED <<schemaCall, device, reads, codecVars, clockVars>>

\* del registers[name]
DelItem ==
  /\ registers.created
  /\ registers.edits < MaxEdits
  /\ \E name \in Keys(registers.data) : registers' = delitem(registers, name)
  /\ UNCHANGED <<schemaCall, device, reads, codecVars, clockVars>>

MapNext == NewRegisterMap \/ SetItem \/ DelItem

MapSpec == Init /\ [][MapNext]_vars

\* ------------------------------------------------------------------ clock claims

\* the python indices i of the differences ts[i + 1] - ts[i] above min_delta
Boundaries(ts, md) == {i \in 0..(Len(ts) - 2) : ts[i + 2] - ts[i + 1] > md}

\* C12: get_barcode_edges returns, in order, exactly one range [start, end)
\* for each pair of consecutive boundaries (differences above min_delta), from
\* the transition after the earlier gap up to and including the transition
\* before the later gap; K boundaries give max(K - 1, 0) ranges
C12_BarcodeEdges ==
  clockCall.op = "get_barcode_edges" =>
    LET B == Boundaries(clockCall.args.timestamps, clockCall.args.min_delta)
        edges == clockCall.res.value
    IN /\ Len(edges) = (IF Cardinality(B) > 0 THEN Cardinality(B) - 1 ELSE 0)
       /\ \A k \in 1..Len(edges) :
            /\ edges[k][1] - 1 \in B
            /\ edges[k][2] - 1 \in B
            /\ edges[k][1] < edges[k][2]
            /\ \A i \in edges[k][1]..(edges[k][2] - 2) : i \notin B
            /\ k < Len(edges) => edges[k + 1][1] = edges[k][2]

C12_Witness ==
  /\ clockCall.op = "get_barcode_edges"
  /\ Len(clockCall.args.timestamps) = 6
  /\ clockCall.args.timestamps[2] - clockCall.args.timestamps[1]
       = clockCall.args.min_delta
  /\ clockCall.res.value = <<(<<2, 4>>), (<<4, 5>>)>>

\* C13: for every 32-bit value v, convert_barcode of the transitions of the
\* barcode that encodes v, one bit per 1/baud_rate seconds, returns exactly v
C13_DecodesEveryValue ==
  (clockCall.op = "convert_barcode" /\ clockCall.args.whole
     /\ clockCall.args.jitter = 0)
    => /\ clockCall.res.raised = "none"
       /\ LittleEndian(clockCall.res.value, 4) = clockCall.args.v

\* C14 as stated: after outlier correction of any array of decoded harp
\* seconds, any two consecutive kept values differ by exactly 1
C14_NoJumpIsKept ==
  (clockCall.op = "remove_outliers" /\ clockCall.res.raised = "none") =>
    LET kept == clockCall.res.value.harp_times
    IN \A i \in 1..(Len(kept) - 1) : kept[i + 1] - kept[i] = 1

\* C14 amended: when outlier correction returns, two consecutive kept values
\* differ by exactly 1 unless the earlier one ends and the later one starts a
\* run of two or more values that increase by exactly 1; of [100, 101, 150,
\* 103] it keeps [100, 101]
C14_JumpsOnlyBetweenRuns ==
  (clockCall.op = "remove_outliers" /\ clockCall.res.raised = "none") =>
    LET kept == clockCall.res.value.harp_times
    IN /\ \A i \in 1..(Len(kept) - 1) :
            \/ kept[i + 1] - kept[i] = 1
            \/ /\ i >= 2 /\ kept[i] - kept[i - 1] = 1
               /\ i + 2 <= Len(kept) /\ kept[i + 2] - kept[i + 1] = 1
       /\ clockCall.args.harp_times = <<100, 101, 150, 103>>
            => kept = <<100, 101>>

C14_Witness ==
  /\ clockCall.op = "remove_outliers"
  /\ clockCall.args.harp_times = <<100, 101, 150, 103>>
  /\ clockCall.res.raised = "none"
  /\ clockCall.res.value.harp_times = <<100, 101>>
  /\ clockCall.res.value.start_times = <<10, 20>>
  /\ clockCall.res.value.num_outliers = 2

\* an alignment with two or more anchors has returned
Aligned ==
  /\ clockCall.op = "align_timestamps_to_harp_clock"
  /\ clockCall.res.raised = "none"
  /\ Len(clockCall.args.start_times) >= 2

\* the anchors and the queries of the alignment
AnchorLocal == clockCall.args.start_times
AnchorHarp == clockCall.args.harp_times
Queries == clockCall.args.timestamps_to_align

\* the line of the fit f passes through anchor k (from 1)
ThroughAnchor(f, k) == f.sn * AnchorLocal[k] + f.on = f.d * AnchorHarp[k]

\* the fit f solves the normal equations of the least-squares line over all anchors
IsGlobalFit(f) ==
  /\ SumSeq([i \in 1..Len(AnchorLocal) |->
       AnchorLocal[i] * (f.sn * AnchorLocal[i] + f.on - f.d * AnchorHarp[i])]) = 0
  /\ SumSeq([i \in 1..Len(AnchorLocal) |->
       f.sn * AnchorLocal[i] + f.on - f.d * AnchorHarp[i]]) = 0

\* the rational a is the value at t of the line through anchors k and k + 1
OnSegment(a, t, k) ==
  (a[1] - a[2] * AnchorHarp[k]) * (AnchorLocal[k + 1] - AnchorLocal[k])
    = a[2] * (AnchorHarp[k + 1] - AnchorHarp[k]) * (t - AnchorLocal[k])

\* C15: for every anchor k of N >= 2 anchors, aligning t = anchor_local[k]
\* returns exactly anchor_harp[k], collinear anchors or not
C15_ReproducesEveryAnchor ==
  Aligned =>
    \A q \in 1..Len(Queries) : \A k \in 1..Len(AnchorLocal) :
      Queries[q] = AnchorLocal[k]
        => clockCall.res.value[q].aligned = <<AnchorHarp[k], 1>>

\* C16 as stated: a query equal to anchor_local[k] is mapped with the fit of
\* the segment that starts at anchor k, the line through anchors k and k + 1
C16_SegmentStartingAtAnchor ==
  Aligned =>
    \A q \in 1..Len(Queries) : \A k \in 1..(Len(AnchorLocal) - 1) :
      Queries[q] = AnchorLocal[k]
        => /\ ThroughAnchor(clockCall.res.value[q].fit, k)
           /\ ThroughAnchor(clockCall.res.value[q].fit, k + 1)

\* C16 amended: a query equal to anchor_local[k] is mapped with the fit of
\* the segment that ends at anchor k, the line through anchors k - 1 and k;
\* a query equal to the first anchor is mapped with the global fit
C16_SegmentEndingAtAnchor ==
  Aligned =>
    \A q \in 1..Len(Queries) : \A k \in 1..Len(AnchorLocal) :
      Queries[q] = AnchorLocal[k]
        => LET r == clockCall.res.value[q]
           IN /\ r.aligned = Rat(Queries[q] * r.fit.sn + r.fit.on, r.fit.d)
              /\ k >= 2 => ThroughAnchor(r.fit, k - 1) /\ ThroughAnchor(r.fit, k)
              /\ k = 1 => IsGlobalFit(r.fit)

C16_Witness ==
  /\ Aligned
  /\ Len(AnchorLocal) = 3
  /\ \E q \in 1..Len(Queries) :
       /\ Queries[q] = AnchorLocal[2]
       /\ ThroughAnchor(clockCall.res.value[q].fit, 1)
       /\ ThroughAnchor(clockCall.res.value[q].fit, 2)
       /\ ~ThroughAnchor(clockCall.res.value[q].fit, 3)
       /\ clockCall.res.value[q].aligned = <<AnchorHarp[2], 1>>

\* C17: a query greater than the last anchor's local time is aligned with the
\* global least-squares fit stored at index 0, not with the last local segment
C17_GlobalFitPastLastAnchor ==
  Aligned =>
    \A q \in 1..Len(Queries) :
      Queries[q] > AnchorLocal[Len(AnchorLocal)]
        => LET r == clockCall.res.value[q]
           IN /\ r.nearest = 0
              /\ IsGlobalFit(r.fit)
              /\ r.aligned[1] * r.fit.d
                   = r.aligned[2] * (Queries[q] * r.fit.sn + r.fit.on)

C17_Witness ==
  /\ Aligned
  /\ Len(AnchorLocal) = 3
  /\ \E q \in 1..Len(Queries) :
       /\ Queries[q] > AnchorLocal[3]
       /\ IsGlobalFit(clockCall.res.value[q].fit)
       /\ ~OnSegment(clockCall.res.value[q].aligned, Queries[q], 2)

\* consecutive anchors are one local second and one harp second apart
OneSecondApart ==
  \A k \in 1..(Len(AnchorLocal) - 1) :
    AnchorLocal[k + 1] - AnchorLocal[k] = 2 /\ AnchorHarp[k + 1] - AnchorHarp[k] = 2

\* C18: a query strictly between anchors k and k + 1 is aligned to the value
\* at t of the exact line through the two anchors; when consecutive anchors
\* are one local and one harp second apart, anchor_local[k] + 0.5 is aligned
\* to anchor_harp[k] + 0.5 and anchor_local[k] - 0.5 to anchor_harp[k] - 0.5
\* for every anchor, the first and the last included
C18_ExactLineWithinSegment ==
  Aligned =>
    \A q \in 1..Len(Queries) :
      /\ \A k \in 1..(Len(AnchorLocal) - 1) :
           (AnchorLocal[k] < Queries[q] /\ Queries[q] < AnchorLocal[k + 1])
             => OnSegment(clockCall.res.value[q].aligned, Queries[q], k)
      /\ OneSecondApart =>
           \A k \in 1..Len(AnchorLocal) :
             /\ Queries[q] = AnchorLocal[k] + 1
                  => clockCall.res.value[q].aligned = <<AnchorHarp[k] + 1, 1>>
             /\ Queries[q] = AnchorLocal[k] - 1
                  => clockCall.res.value[q].aligned = <<AnchorHarp[k] - 1, 1>>

C18_Witness ==
  /\ Aligned
  /\ Len(AnchorLocal) = 3
  /\ \E q \in 1..Len(Queries) :
       /\ AnchorLocal[2] < Queries[q] /\ Queries[q] < AnchorLocal[3]
       /\ AnchorLocal[3] - AnchorLocal[2] = 3
       /\ OnSegment(clockCall.res.value[q].aligned, Queries[q], 2)
       /\ ~OnSegment(clockCall.res.value[q].aligned, Queries[q], 1)
       /\ clockCall.res.value[q].aligned[2] = 3

\* harp_times[i] (i from 1) is one more than its predecessor or one less than
\* its successor: it belongs to a maximal run of two or more values that
\* increase by exactly 1
InRun(harp_times, i) ==
  \/ i > 1 /\ harp_times[i] - harp_times[i - 1] = 1
  \/ i < Len(harp_times) /\ harp_times[i + 1] - harp_times[i] = 1

\* the positions of the values in such runs, ascending
RunPositions(harp_times) ==
  SelectSeq([i \in 1..Len(harp_times) |-> i], LAMBDA i : InRun(harp_times, i))

\* C21: remove_outliers, when some value belongs to a maximal run of two or
\* more consecutive values each exactly 1 greater than its predecessor, keeps
\* exactly the values of such runs and removes every other value, at the same
\* positions of start_times and harp_times and in the original order; a jump to
\* a new value that then continues to increase by 1 is kept
C21_KeepsExactlyTheRuns ==
  clockCall.op = "remove_outliers" =>
    LET h == clockCall.args.harp_times
        st == clockCall.args.start_times
        kept == RunPositions(h)
    IN /\ kept # <<>> =>
            /\ clockCall.res.raised = "none"
            /\ clockCall.res.value.harp_times = [k \in 1..Len(kept) |-> h[kept[k]]]
            /\ clockCall.res.value.start_times = [k \in 1..Len(kept) |-> st[kept[k]]]
            /\ clockCall.res.value.num_outliers = Len(h) - Len(kept)
       /\ clockCall.res.raised = "none" => kept # <<>>
       /\ h = <<100, 101, 150, 151>> => clockCall.res.value.harp_times = h

C21_Witness ==
  /\ clockCall.op = "remove_outliers"
  /\ clockCall.args.harp_times = <<150, 102, 103, 101>>
  /\ clockCall.res.raised = "none"
  /\ clockCall.res.value.harp_times = <<102, 103>>
  /\ clockCall.res.value.start_times = <<20, 30>>

\* the seconds the barcodes of the stream encode that decode_harp_clock
\* converts: all but the first and the last, which no two gaps enclose
Enclosed(values) ==
  IF Len(values) < 3 THEN <<>> ELSE SubSeq(values, 2, Len(values) - 1)

\* the value of bytes whose bit 31 is clear
ValueOf(v) == v[1] + 256 * v[2] + 65536 * v[3] + 16777216 * v[4]

\* C25: decode_harp_clock fails with an error instead of returning empty
\* anchor arrays whenever outlier removal would keep no value: a transition
\* stream with fewer than two inter-barcode gaps, a single decoded barcode, or
\* decoded values of which no two consecutive ones differ by exactly 1
C25_FailsInsteadOfEmpty ==
  clockCall.op = "decode_harp_clock" =>
    LET gaps == Boundaries(clockCall.args.timestamps, UnitsPerSecond \div 2)
        enclosed == Enclosed(clockCall.args.values)
        decodable == \A k \in 1..Len(enclosed) : enclosed[k][4] < 128
        seconds == [k \in 1..Len(enclosed) |-> ValueOf(enclosed[k])]
    IN /\ clockCall.res.raised = "none" =>
            /\ Len(clockCall.res.value.harp_times) >= 2
            /\ Len(clockCall.res.value.start_times)
                 = Len(clockCall.res.value.harp_times)
       /\ Cardinality(gaps) < 2 =>
            clockCall.res.raised = "ValueError" /\ clockCall.res.line = 229
       /\ (decodable /\ Len(enclosed) = 1) =>
            clockCall.res.raised = "ValueError" /\ clockCall.res.line = 229
       /\ (decodable /\ RunPositions(seconds) = <<>>) =>
            clockCall.res.raised = "ValueError" /\ clockCall.res.line = 229
       /\ (decodable /\ RunPositions(seconds) # <<>>) =>
            /\ clockCall.res.raised = "none"
            /\ clockCall.res.value.harp_times
                 = [k \in 1..Len(RunPositions(seconds)) |->
                      seconds[RunPositions(seconds)[k]]]

C25_Witness ==
  /\ clockCall.op = "decode_harp_clock"
  /\ clockCall.args.values
       = <<(<<100, 0, 0, 0>>), (<<100, 0, 0, 0>>), (<<150, 0, 0, 0>>), (<<101, 0, 0, 0>>),
           (<<101, 0, 0, 0>>)>>
  /\ clockCall.res.raised = "ValueError"
  /\ clockCall.res.line = 229

\* ------------------------------------------------------------------ reader claims

\* C19: a register reader created with default epoch E and keep_type K uses E
\* and K on every read() call that omits them; an epoch or keep_type passed to
\* one call (epoch=None included) is used for that call only, and the defaults
\* of a later call are still E and K
C19_DefaultsAndOverrides ==
  device.created =>
    /\ device.reader.params = [epoch |-> device.args.epoch,
                               keep_type |-> device.args.keep_type]
    /\ \A i \in 1..Len(reads) :
         LET c == reads[i]
             epoch == IF c.epoch.passed THEN c.epoch.value ELSE device.args.epoch
             keep == IF c.keep_type.passed THEN c.keep_type.value
                     ELSE device.args.keep_type
             register == device.reader.schema.registers[c.name]
         IN /\ c.bound = [epoch |-> epoch, keep_type |-> keep]
            /\ (register.length = None \/ register.payloadSpec # <<>>)
                 => c.res.raised = "none"
            /\ (c.res.raised = "none" /\ register.address # EmptyFileAddress) =>
                 /\ c.res.tab.nrows = 2
                 /\ c.res.tab.index = (IF epoch THEN "datetime" ELSE "float")
                 /\ c.res.tab.hasType = keep
                 /\ keep => c.res.tab.kinds = <<READ, EVENT>>

C19_Witness ==
  /\ device.created
  /\ device.args.epoch /\ ~device.args.keep_type
  /\ Len(reads) = 2
  /\ reads[1].name = "AnalogDataPayloadSpec" /\ reads[2].name = "WhoAmI"
  /\ reads[1].epoch = Passed(FALSE) /\ reads[1].keep_type = Passed(TRUE)
  /\ reads[1].res.tab.index = "float" /\ reads[1].res.tab.hasType
  /\ reads[1].res.tab.columns = <<346, 347>>
  /\ reads[2].epoch = Omitted /\ reads[2].keep_type = Omitted
  /\ reads[2].res.tab.index = "datetime" /\ ~reads[2].res.tab.hasType
  /\ reads[2].res.tab.nrows = 2

\* C20: read_schema honours include_common_registers for a file path and for
\* an open text stream: with False the registers are exactly those the device
\* file declares; with True the common registers are added, device-declared
\* entries taking precedence, unless the device file declares WhoAmI
C20_IncludeCommonRegisters ==
  schemaCall.op = "read_schema" =>
    LET declared == schemaCall.file.content.registers
        common == CommonRegisters.registers
        got == schemaCall.res.registers
    IN /\ ~schemaCall.include_common_registers => got = declared
       /\ (schemaCall.include_common_registers /\ "WhoAmI" \in DOMAIN declared)
            => got = declared
       /\ (schemaCall.include_common_registers /\ "WhoAmI" \notin DOMAIN declared)
            => /\ DOMAIN got = (DOMAIN declared) \cup (DOMAIN common)
               /\ \A n \in DOMAIN declared : got[n] = declared[n]
               /\ \A n \in (DOMAIN common) \ (DOMAIN declared) : got[n] = common[n]

\* ------------------------------------------------------------------ map claims

\* the addresses looked up: those of the registers, and one of no register
LookedUp == {DeviceRegisters[n].address : n \in DOMAIN DeviceRegisters} \cup {46, 47}

\* the items of the map whose register has the address a
EntriesAt(a) ==
  {i \in 1..Len(registers.data) : registers.data[i][2].register.address = a}

\* C26: in every state reachable by insertions, replacements and deletions on
\* a RegisterMap, map[a] succeeds iff some entry of the map has the register
\* address a, and then returns the reader map[name] returns for such an entry
C26_LookupsAgree ==
  registers.created =>
    \A a \in LookedUp :
      LET found == getitem(registers, a, TRUE)
      IN /\ (found.raised = "none") = (EntriesAt(a) # {})
         /\ found.raised = "none" =>
              \E i \in EntriesAt(a) :
                getitem(registers, registers.data[i][1], FALSE) = found
====
